---- MODULE Spec2Model ----
(***************************************************************************)
(* Model of the signal confirmation pipeline of the crypto trading         *)
(* scanner: the symbol cooldown gate and confirmation cache of             *)
(* ConfirmationCandleSystem (confirmation_candles.py), the driver loop and *)
(* alert bookkeeping of RealTimeAlertSystem (flask_dashboard.py), and the  *)
(* fair value gap detector of OpportunityScanner (opportunity_scanner.py). *)
(*                                                                         *)
(* Time is measured in minutes.  Prices are integers (price x 10).         *)
(* Confidences are integers in units of 1/84 percent, so that              *)
(* points/4, points/5, points/6, points/7 of 100 percent and the mean of   *)
(* four of them are all exact.                                             *)
(***************************************************************************)
EXTENDS Integers, Sequences, FiniteSets, TLC

VARIABLES
    now,                    \* wall clock, minutes (datetime.now())
    pc,                     \* position of the driver thread in its loop
    market,                 \* what the candle source returned to the last check
    audio_enabled,          \* TradingDashboard.audio_enabled
    symbol_signal_history,  \* ConfirmationCandleSystem.symbol_signal_history
    confirmation_cache,     \* ConfirmationCandleSystem.confirmation_cache
    active_alerts,          \* TradingDashboard.active_alerts
    beeps,                  \* calls made to the audio player
    skipped,                \* symbols whose signal the cooldown gate dropped in the last pass
    stage_results,          \* inputs of a verdict computation
    verdict,                \* result of a verdict computation
    df,                     \* candle sequence given to the gap detector
    fvg_zones,              \* result of detect_fair_value_gaps(df)
    timeframe_results,      \* per-timeframe verdicts given to the confluence engine
    confluence_analysis,    \* result of analyze_timeframe_confluence
    analysis,               \* analysis dict given to score_opportunity
    opportunity,            \* score and breakdown computed by score_opportunity
    settings,               \* field values given to TradingSettings
    config_status,          \* "unloaded", "loaded" or "fatal" (ValueError at import)
    confirmation_timeframe, \* ConfirmationCandleSystem.confirmation_timeframe once built
    exchange_connected,     \* TradingDashboard.exchange_connected
    demo_mode,              \* TradingDashboard.demo_mode
    data_cache,             \* TradingDashboard.data_cache
    last_fetch,             \* the latest call of fetch_and_cache_data
    last_alerts,            \* RealTimeAlertSystem.last_alerts
    last_pass,              \* the latest pass of monitor_all_symbols: crossovers found, signals handed on
    adapter,                \* BitunixAdapter: _connected and public_client
    adapter_trace,          \* latest connect/disconnect event, latest data call, queries sent to the client
    stage_input,            \* candles, direction, price and time given to the four blocks
    stage_output,           \* what the four blocks returned for stage_input
    stage_log,              \* block calls made by the latest pass of check_pending_confirmations
    request,                \* the request thread: handler position, dict iterator, response
    crossover               \* what the latest two primary-timeframe candles show, and since when

vars == <<now, pc, market, audio_enabled, symbol_signal_history,
          confirmation_cache, active_alerts, beeps, skipped,
          stage_results, verdict, df, fvg_zones,
          timeframe_results, confluence_analysis,
          analysis, opportunity,
          settings, config_status, confirmation_timeframe,
          exchange_connected, demo_mode, data_cache, last_fetch,
          last_alerts, last_pass, adapter, adapter_trace,
          stage_input, stage_output,
          stage_log, request, crossover>>

confVars == <<now, pc, market, audio_enabled, symbol_signal_history,
              confirmation_cache, active_alerts, beeps, skipped>>
verdictVars == <<stage_results, verdict>>
gapVars == <<df, fvg_zones>>
confluenceVars == <<timeframe_results, confluence_analysis>>
scoreVars == <<analysis, opportunity>>
configVars == <<settings, config_status, confirmation_timeframe>>
fetchVars == <<exchange_connected, demo_mode, data_cache, last_fetch>>
gateVars == <<last_alerts, last_pass>>
adapterVars == <<adapter, adapter_trace>>
stageVars == <<stage_input, stage_output>>
requestVars == <<request, crossover>>
restVars == <<confluenceVars, scoreVars, configVars, fetchVars, gateVars, adapterVars,
              stageVars, requestVars>>
lateVars == <<stage_log, requestVars>>
extVars == <<restVars, stage_log>>

-----------------------------------------------------------------------------
(* Bounds of the model *)

MaxPeriods == 6        \* the clock stops after this many candle periods

(* Program constants *)

CandleMinutes == 5
second_confirmation_delay == 5
third_confirmation_delay == 10
fourth_confirmation_delay == 15
symbol_cooldown_minutes == 30
PendingMinutes == 25
MaxActiveAlerts == 10
PCT == 4 * 3 * 7        \* confidence units per percent

Symbols == {1}         \* symbol watched in the main specification
BurstSymbols == 1..(MaxActiveAlerts + 1)
AllSymbols == Symbols \cup BurstSymbols
NoTime == -1           \* the symbol has no entry in symbol_signal_history
NoConfidence == -1     \* the alert has no confirmation_confidence key yet
Directions == {"LONG", "SHORT"}

-----------------------------------------------------------------------------
(* Candles and the DataFrame built by get_confirmation_data *)

FillerCandle == [open |-> 1000, high |-> 1001, low |-> 999, close |-> 1000, volume |-> 10]
PerfectLong  == [open |-> 1000, high |-> 1031, low |-> 999, close |-> 1030, volume |-> 100]
PerfectShort == [open |-> 1000, high |-> 1001, low |-> 969, close |-> 970, volume |-> 100]
ModestLong   == [open |-> 999, high |-> 1015, low |-> 995, close |-> 1012, volume |-> 14]

\* price_curr of the signal payload: the close the market rested at
SignalPrice == FillerCandle.close

NoData == [rows |-> 0, last_ts |-> 0, recent |-> <<>>, ok |-> FALSE]

Frame(n, ts, recent) == [rows |-> n, last_ts |-> ts, recent |-> recent, ok |-> TRUE]

\* Row i (index label 0..rows-1) of a frame: the last Len(recent) rows are
\* the given candles, every earlier row is FillerCandle.
Row(f, i) ==
    LET k == Len(f.recent)
    IN IF i >= f.rows - k THEN f.recent[i - (f.rows - k) + 1] ELSE FillerCandle

\* Timestamps ascend by one candle period; the last row carries last_ts.
RowTs(f, i) == f.last_ts - CandleMinutes * (f.rows - 1 - i)

body_size(c) == IF c.close >= c.open THEN c.close - c.open ELSE c.open - c.close
MaxOC(c) == IF c.open >= c.close THEN c.open ELSE c.close
MinOC(c) == IF c.open <= c.close THEN c.open ELSE c.close
upper_wick(c) == c.high - MaxOC(c)
lower_wick(c) == MinOC(c) - c.low
total_range(c) == c.high - c.low
is_bullish(c) == c.close > c.open
is_bearish(c) == c.close < c.open

\* body_ratio > t10/10 (a zero range gives NaN or inf; NaN compares false)
BodyRatioAbove(c, t10) ==
    /\ total_range(c) > 0
    /\ body_size(c) * 10 > t10 * total_range(c)

RECURSIVE VolumeSum(_, _, _)
VolumeSum(f, lo, hi) ==
    IF lo > hi THEN 0 ELSE Row(f, hi).volume + VolumeSum(f, lo, hi - 1)

\* volume_ratio > t10/10 where volume_ratio = volume / rolling(10).mean();
\* the rolling mean is NaN for the first nine rows.
VolumeRatioAbove(f, i, t10) ==
    /\ i >= 9
    /\ VolumeSum(f, i - 9, i) > 0
    /\ Row(f, i).volume * 10 * 10 > t10 * VolumeSum(f, i - 9, i)

\* both wicks below t100/100 of the range
WicksBelow(c, t100) ==
    /\ total_range(c) > 0
    /\ upper_wick(c) * 100 < t100 * total_range(c)
    /\ lower_wick(c) * 100 < t100 * total_range(c)

\* Index labels of the rows later than a time threshold.
RowsAfter(f, threshold) == {i \in 0..(f.rows - 1) : RowTs(f, i) > threshold}

MaxOf(S) == CHOOSE x \in S : \A y \in S : y <= x

\* df[df['timestamp'] > threshold].tail(1): the label of the selected row,
\* or -1 when the selection is empty.
TailOne(f, threshold) ==
    IF RowsAfter(f, threshold) = {} THEN -1 ELSE MaxOf(RowsAfter(f, threshold))

-----------------------------------------------------------------------------
(* Stage results: (confirmed, confidence, details); details is kept as the *)
(* kind of outcome.                                                        *)

StageResult(c, conf, o) == [confirmed |-> c, confidence |-> conf, outcome |-> o]

B(p) == IF p THEN 1 ELSE 0

Scored(points, max_score, threshold) ==
    LET confidence == (points * 100 * PCT) \div max_score
    IN StageResult(confidence >= threshold * PCT, confidence, "scored")

Insufficient == StageResult(FALSE, 0, "insufficient")
Waiting == StageResult(FALSE, 0, "waiting")
Errored == StageResult(FALSE, 0, "error")

\* check_long_confirmation / check_short_confirmation: four checks on the
\* latest candle after the signal, confirmed at 60 percent.
\* A first block that asks for the body ratio of the second block.
check_long_confirmation_strict(f, signal_price, signal_time) ==
    IF ~f.ok \/ f.rows < 5 THEN Insufficient
    ELSE LET idx == TailOne(f, signal_time)
             c == Row(f, idx)
         IN IF idx < 0 THEN Waiting
            ELSE Scored(B(is_bullish(c)) + B(BodyRatioAbove(c, 7))
                        + B(VolumeRatioAbove(f, idx, 12))
                        + B(c.close > signal_price), 4, 60)

check_long_confirmation(f, signal_price, signal_time) ==
    IF ~f.ok \/ f.rows < 5 THEN Insufficient
    ELSE LET idx == TailOne(f, signal_time)
             c == Row(f, idx)
         IN IF idx < 0 THEN Waiting
            ELSE Scored(B(is_bullish(c)) + B(BodyRatioAbove(c, 6))
                        + B(VolumeRatioAbove(f, idx, 12))
                        + B(c.close > signal_price), 4, 60)

check_short_confirmation(f, signal_price, signal_time) ==
    IF ~f.ok \/ f.rows < 5 THEN Insufficient
    ELSE LET idx == TailOne(f, signal_time)
             c == Row(f, idx)
         IN IF idx < 0 THEN Waiting
            ELSE Scored(B(is_bearish(c)) + B(BodyRatioAbove(c, 6))
                        + B(VolumeRatioAbove(f, idx, 12))
                        + B(c.close < signal_price), 4, 60)

check_confirmation(f, direction, signal_price, signal_time) ==
    IF direction = "LONG" THEN check_long_confirmation(f, signal_price, signal_time)
    ELSE IF direction = "SHORT" THEN check_short_confirmation(f, signal_price, signal_time)
    ELSE StageResult(FALSE, 0, "invalid")

\* Checks shared by the second, third and fourth block.
DirectionOk(c, direction) ==
    \/ direction = "LONG" /\ is_bullish(c)
    \/ direction = "SHORT" /\ is_bearish(c)

\* close beyond signal_price by pct percent (0, 1 or 2)
MomentumOk(c, direction, signal_price, pct) ==
    \/ direction = "LONG" /\ c.close * 100 > signal_price * (100 + pct)
    \/ direction = "SHORT" /\ c.close * 100 < signal_price * (100 - pct)

check_second_confirmation(f, direction, signal_price, signal_time) ==
    IF ~f.ok \/ f.rows < 10 THEN Insufficient
    ELSE LET idx == TailOne(f, signal_time + second_confirmation_delay)
             c == Row(f, idx)
         IN IF idx < 0 THEN Waiting
            ELSE Scored(B(DirectionOk(c, direction)) + B(BodyRatioAbove(c, 7))
                        + B(VolumeRatioAbove(f, idx, 15))
                        + B(MomentumOk(c, direction, signal_price, 0))
                        + B(WicksBelow(c, 30)), 5, 80)

\* The trend check of the third and fourth block.  recent_candles holds the
\* single selected row, idx is its index label in the full frame, and the code
\* reads recent_candles.iloc[idx-1] whenever idx > 0: position 0 is the
\* selected row itself, any other position is out of bounds (IndexError).
\* Result: 1 or 0 points, or -1 when the lookup raises.
\* permille is the required advance over the previous close (0 or 5).
TrendPoint(f, idx, direction, permille) ==
    IF idx > 0
    THEN IF idx - 1 > 0 THEN -1
         ELSE LET c == Row(f, idx)
                  prev_candle == Row(f, idx)
              IN B(\/ direction = "LONG"
                      /\ c.close * 1000 > prev_candle.close * (1000 + permille)
                   \/ direction = "SHORT"
                      /\ c.close * 1000 < prev_candle.close * (1000 - permille))
    ELSE 1

check_third_confirmation(f, direction, signal_price, signal_time) ==
    IF ~f.ok \/ f.rows < 15 THEN Insufficient
    ELSE LET idx == TailOne(f, signal_time + third_confirmation_delay)
             c == Row(f, idx)
             trend == TrendPoint(f, idx, direction, 0)
         IN IF idx < 0 THEN Waiting
            ELSE IF trend < 0 THEN Errored
            ELSE Scored(B(DirectionOk(c, direction)) + B(BodyRatioAbove(c, 8))
                        + B(VolumeRatioAbove(f, idx, 20))
                        + B(MomentumOk(c, direction, signal_price, 1))
                        + B(WicksBelow(c, 20)) + trend, 6, 85)

\* df[df['timestamp'] > signal_timestamp].tail(5): labels of the last five
\* rows after the signal.
LastFiveAfter(f, signal_time) ==
    {i \in RowsAfter(f, signal_time) :
        Cardinality({j \in RowsAfter(f, signal_time) : j > i}) < 5}

\* At most one candle of the opposite colour among them.
NoReversal(f, direction, signal_time) ==
    \/ direction = "LONG"
       /\ Cardinality({i \in LastFiveAfter(f, signal_time) : is_bearish(Row(f, i))}) <= 1
    \/ direction = "SHORT"
       /\ Cardinality({i \in LastFiveAfter(f, signal_time) : is_bullish(Row(f, i))}) <= 1

check_fourth_confirmation(f, direction, signal_price, signal_time) ==
    IF ~f.ok \/ f.rows < 20 THEN Insufficient
    ELSE LET idx == TailOne(f, signal_time + fourth_confirmation_delay)
             c == Row(f, idx)
             trend == TrendPoint(f, idx, direction, 5)
         IN IF idx < 0 THEN Waiting
            ELSE IF trend < 0 THEN Errored
            ELSE Scored(B(DirectionOk(c, direction)) + B(BodyRatioAbove(c, 9))
                        + B(VolumeRatioAbove(f, idx, 30))
                        + B(MomentumOk(c, direction, signal_price, 2))
                        + B(WicksBelow(c, 15)) + trend
                        + B(NoReversal(f, direction, signal_time)), 7, 90)

-----------------------------------------------------------------------------
(* What the candle source returns for the 5m timeframe during one pass of   *)
(* check_pending_confirmations, by market scenario.  Fresh data ends with   *)
(* the candle that opened at the current time.                              *)

MarketScenarios == {"down", "few", "some", "long", "short", "modest", "stale"}

get_confirmation_data(m, t) ==
    CASE m = "down"   -> NoData
      [] m = "few"    -> Frame(4, t, <<PerfectLong>>)
      [] m = "some"   -> Frame(12, t, <<PerfectLong>>)
      [] m = "modest" -> Frame(25, t, <<PerfectShort, ModestLong>>)
      [] m = "long"   -> Frame(25, t, <<PerfectLong>>)
      [] m = "short"  -> Frame(25, t, <<PerfectShort>>)
      [] m = "stale"  -> Frame(25, t - 15, <<PerfectLong>>)

-----------------------------------------------------------------------------
(* Cooldown gate and confirmation cache (confirmation_candles.py) *)

\* A cooldown gate that compares against 20 minutes instead of the configured
\* window.
check_symbol_cooldown_short(history, symbol, t) ==
    /\ history[symbol] # NoTime
    /\ t - history[symbol] < 20

\* check_symbol_cooldown: the first component of its result
check_symbol_cooldown(history, symbol, t) ==
    /\ history[symbol] # NoTime
    /\ t - history[symbol] < symbol_cooldown_minutes

\* An update that leaves the symbol's entry as it was.
update_symbol_signal_history_unset(history, symbol, t) == history

update_symbol_signal_history(history, symbol, t) ==
    [history EXCEPT ![symbol] = t]

CacheKey(r) == <<r.symbol, r.direction, r.signal_time>>

\* update_confirmation_cache: the entry under the same key is replaced
update_confirmation_cache(cache, symbol, direction, signal_price, signal_time) ==
    LET entry == [symbol |-> symbol, direction |-> direction,
                  signal_price |-> signal_price, signal_time |-> signal_time]
    IN {r \in cache : CacheKey(r) # CacheKey(entry)} \cup {entry}

\* A pending scan that already releases entries after the fourth delay.
get_pending_confirmations_early(cache, t) ==
    {r \in cache : t - r.signal_time >= fourth_confirmation_delay}

\* get_pending_confirmations: every cached entry at least 25 minutes old
get_pending_confirmations(cache, t) ==
    {r \in cache : t - r.signal_time >= PendingMinutes}

-----------------------------------------------------------------------------
(* RealTimeAlertSystem (flask_dashboard.py) *)

AlertKey(a) == <<a.symbol, a.direction, a.timestamp>>

\* Keep only the last 10 alerts
LastAlerts(alerts) ==
    IF Len(alerts) > MaxActiveAlerts
    THEN SubSeq(alerts, Len(alerts) - MaxActiveAlerts + 1, Len(alerts))
    ELSE alerts

\* store_signal_for_confirmation applied to the state st =
\* [history, cache, alerts, beeps, skipped]; sig = [symbol, direction], the
\* signal's timestamp is the current time t.
store_signal_for_confirmation(st, sig, t, audio) ==
    IF check_symbol_cooldown(st.history, sig.symbol, t)
    THEN [st EXCEPT !.skipped = @ \cup {sig.symbol}]
    ELSE LET alert == [symbol |-> sig.symbol, direction |-> sig.direction,
                       price |-> SignalPrice, timestamp |-> t,
                       confirmation_status |-> "PENDING",
                       confirmation_checked |-> FALSE,
                       confirmation_confidence |-> NoConfidence]
         IN [history |-> update_symbol_signal_history(st.history, sig.symbol, t),
             cache |-> update_confirmation_cache(st.cache, sig.symbol,
                                                 sig.direction, SignalPrice, t),
             alerts |-> LastAlerts(Append(st.alerts, alert)),
             beeps |-> IF audio
                       THEN st.beeps \cup {[key |-> AlertKey(alert), kind |-> "immediate"]}
                       ELSE st.beeps,
             skipped |-> st.skipped]

RECURSIVE StoreAll(_, _, _, _)
StoreAll(st, batch, t, audio) ==
    IF batch = <<>> THEN st
    ELSE StoreAll(store_signal_for_confirmation(st, Head(batch), t, audio),
                  Tail(batch), t, audio)

\* One monitoring pass of the driver: the signals found by
\* check_symbol_for_signals are handed to store_signal_for_confirmation in turn.
monitor_all_symbols(batch) ==
    /\ pc = "monitor"
    /\ LET st == StoreAll([history |-> symbol_signal_history,
                           cache |-> confirmation_cache,
                           alerts |-> active_alerts,
                           beeps |-> beeps,
                           skipped |-> {}], batch, now, audio_enabled)
       IN /\ symbol_signal_history' = st.history
          /\ confirmation_cache' = st.cache
          /\ active_alerts' = st.alerts
          /\ beeps' = st.beeps
          /\ skipped' = st.skipped
    /\ pc' = "check"
    /\ UNCHANGED <<now, market, audio_enabled>>
    /\ UNCHANGED verdictVars
    /\ UNCHANGED gapVars
    /\ UNCHANGED extVars

\* The four blocks run on a pending cache entry
StageResults(m, t, r) ==
    LET f == get_confirmation_data(m, t)
    IN <<check_confirmation(f, r.direction, r.signal_price, r.signal_time),
         check_second_confirmation(f, r.direction, r.signal_price, r.signal_time),
         check_third_confirmation(f, r.direction, r.signal_price, r.signal_time),
         check_fourth_confirmation(f, r.direction, r.signal_price, r.signal_time)>>

\* The time thresholds of the four blocks, in minutes after the signal
StageDelays ==
    <<0, second_confirmation_delay, third_confirmation_delay, fourth_confirmation_delay>>

\* A pass that calls the blocks from the fourth to the first.
EvaluatedStages_backwards(r, t) ==
    [k \in 1..4 |-> [key |-> CacheKey(r), stage |-> 5 - k, at |-> t]]

\* The block calls check_pending_confirmations makes for the pending entry
\* r at time t, in call order
EvaluatedStages(r, t) ==
    [k \in 1..4 |-> [key |-> CacheKey(r), stage |-> k, at |-> t]]

\* A verdict that forgets the fourth block in fully_confirmed.
FinalVerdict_three(res) ==
    [status |-> IF res[1].confirmed /\ res[2].confirmed /\ res[3].confirmed
                THEN "CONFIRMED" ELSE "REJECTED",
     confidence |-> (res[1].confidence + res[2].confidence
                     + res[3].confidence + res[4].confidence) \div 4]

\* fully_confirmed and combined_confidence of check_pending_confirmations
FinalVerdict(res) ==
    [status |-> IF res[1].confirmed /\ res[2].confirmed
                   /\ res[3].confirmed /\ res[4].confirmed
                THEN "CONFIRMED" ELSE "REJECTED",
     confidence |-> (res[1].confidence + res[2].confidence
                     + res[3].confidence + res[4].confidence) \div 4]

NoVerdict == [status |-> "NONE", confidence |-> 0]

\* The alert a pending entry updates: the first one with its symbol,
\* direction and timestamp (0 when there is none).
MatchingAlert(alerts, r) ==
    LET hits == {i \in DOMAIN alerts : AlertKey(alerts[i]) = CacheKey(r)}
    IN IF hits = {} THEN 0 ELSE CHOOSE i \in hits : \A j \in hits : i <= j

\* check_pending_confirmations: every pending entry is evaluated and its
\* alert rewritten; a confirmed one goes to trigger_confirmed_alert.
check_pending_confirmations(m) ==
    /\ pc = "check"
    /\ market' = m
    /\ LET pending == get_pending_confirmations(confirmation_cache, now)
           Hit(i) == {r \in pending : MatchingAlert(active_alerts, r) = i}
           Entry(i) == CHOOSE r \in Hit(i) : TRUE
           Updated(i) ==
               LET v == FinalVerdict(StageResults(m, now, Entry(i)))
               IN [active_alerts[i] EXCEPT
                      !.confirmation_status = v.status,
                      !.confirmation_confidence = v.confidence,
                      !.confirmation_checked = TRUE]
           result == [i \in DOMAIN active_alerts |->
                         IF Hit(i) = {} THEN active_alerts[i] ELSE Updated(i)]
       IN /\ active_alerts' = result
          /\ beeps' = IF audio_enabled
                      THEN beeps \cup
                           {[key |-> AlertKey(result[i]), kind |-> "confirmed"] :
                              i \in {j \in DOMAIN result :
                                       /\ Hit(j) # {}
                                       /\ result[j].confirmation_status = "CONFIRMED"}}
                      ELSE beeps
    /\ stage_log' = {EvaluatedStages(r, now) :
                         r \in get_pending_confirmations(confirmation_cache, now)}
    /\ pc' = "monitor"
    /\ UNCHANGED <<now, audio_enabled, symbol_signal_history,
                   confirmation_cache, skipped>>
    /\ UNCHANGED verdictVars
    /\ UNCHANGED gapVars
    /\ UNCHANGED restVars

\* POST /api/audio/toggle
toggle_audio ==
    /\ audio_enabled' = ~audio_enabled
    /\ UNCHANGED <<now, pc, market, symbol_signal_history, confirmation_cache,
                   active_alerts, beeps, skipped>>
    /\ UNCHANGED verdictVars
    /\ UNCHANGED gapVars
    /\ UNCHANGED extVars

\* Time passes: one candle period
AdvanceTime ==
    /\ now + CandleMinutes <= MaxPeriods * CandleMinutes
    /\ now' = now + CandleMinutes
    /\ UNCHANGED <<pc, market, audio_enabled, symbol_signal_history,
                   confirmation_cache, active_alerts, beeps, skipped>>
    /\ UNCHANGED verdictVars
    /\ UNCHANGED gapVars
    /\ UNCHANGED extVars

-----------------------------------------------------------------------------
(* The verdict computation on its own: four stage results in, verdict out. *)

\* A stage result with a given confidence, confirmed at the block's threshold
ByConfidence(pct, threshold) ==
    StageResult(pct >= threshold, pct * PCT, "scored")

StageOutcomes(max_score, threshold) ==
    {Scored(p, max_score, threshold) : p \in 0..max_score}
        \cup {Insufficient, Waiting, Errored}
        \cup {ByConfidence(pct, threshold) : pct \in {50, 80, 90, 100}}

StageInputs ==
    {<<r1, r2, r3, r4>> : r1 \in StageOutcomes(4, 60), r2 \in StageOutcomes(5, 80),
                          r3 \in StageOutcomes(6, 85), r4 \in StageOutcomes(7, 90)}

compute_verdict ==
    /\ stage_results # <<>>
    /\ verdict = NoVerdict
    /\ verdict' = FinalVerdict(stage_results)
    /\ UNCHANGED stage_results
    /\ UNCHANGED confVars
    /\ UNCHANGED gapVars
    /\ UNCHANGED extVars

-----------------------------------------------------------------------------
(* Fair value gap detector (opportunity_scanner.py).  Prices are price x 10. *)

FVG_THRESHOLD_PERMILLE == 5
FVG_VOLUME_CONFIRM_X10 == 15
FVG_MAX_AGE == 50
MaxCandles == 5        \* candles chosen freely before the history is extended

BaseCandle == [high |-> 1000, low |-> 990, close |-> 1000, volume |-> 10]
UpCandle   == [high |-> 1020, low |-> 1010, close |-> 1020, volume |-> 10]
IdleCandle == [high |-> 1000, low |-> 990, close |-> 990, volume |-> 0]
WideCandle == [high |-> 1020, low |-> 990, close |-> 1010, volume |-> 10]
DipCandle  == [high |-> 1020, low |-> 1003, close |-> 1010, volume |-> 10]

GapCandles == {BaseCandle, UpCandle, IdleCandle, WideCandle, DipCandle}

Min2(a, b) == IF a <= b THEN a ELSE b
Max2(a, b) == IF a >= b THEN a ELSE b

\* A fill test that looks at the latest candle only.
is_gap_filled_latest(d, gap_index, gap_low, gap_high) ==
    \E i \in {Len(d) - 1} \cap ((gap_index + 1)..(Len(d) - 1)) :
        LET candle_low == d[i + 1].low
            candle_high == d[i + 1].high
            gap_range == gap_high - gap_low
            overlap == Min2(candle_high, gap_high) - Max2(candle_low, gap_low)
        IN \/ candle_low <= gap_low /\ candle_high >= gap_high
           \/ overlap * 10 > gap_range * 7

\* _is_gap_filled: d is the candle sequence (d[i+1] is df.iloc[i]), gap_index
\* the iloc position of the gap's third candle.
is_gap_filled(d, gap_index, gap_low, gap_high) ==
    \E i \in (gap_index + 1)..(Len(d) - 1) :
        LET candle_low == d[i + 1].low
            candle_high == d[i + 1].high
            gap_range == gap_high - gap_low
            overlap == Min2(candle_high, gap_high) - Max2(candle_low, gap_low)
        IN \/ candle_low <= gap_low /\ candle_high >= gap_high
           \/ overlap * 10 > gap_range * 7

RECURSIVE SumVolumes(_, _, _)
SumVolumes(d, lo, hi) ==
    IF lo > hi THEN 0 ELSE d[hi + 1].volume + SumVolumes(d, lo, hi - 1)

\* candle2['volume'] / df['volume'].rolling(20).mean().iloc[i-1] > 1.5 when
\* i >= 20, else the ratio is 1.0
VolumeConfirmed(d, i) ==
    /\ i >= 20
    /\ d[i].volume * 20 * 10 > FVG_VOLUME_CONFIRM_X10 * SumVolumes(d, i - 20, i - 1)

Zone(d, i, type, gap_low, gap_high) ==
    [type |-> type, gap_low |-> gap_low, gap_high |-> gap_high,
     volume_confirmed |-> VolumeConfirmed(d, i),
     age |-> Len(d) - i,
     formation_index |-> i - 1,
     status |-> IF is_gap_filled(d, i, gap_low, gap_high)
                THEN "FILLED" ELSE "UNFILLED"]

\* A window that reports its bullish gap from the first candle's low.
WindowZones_low(d, i) ==
    LET candle1 == d[i - 1]
        candle2 == d[i]
        candle3 == d[i + 1]
    IN IF \E val \in {candle1.high, candle1.low, candle2.high, candle2.low,
                      candle3.high, candle3.low, candle2.volume} : val <= 0
       THEN <<>>
       ELSE IF candle3.low > candle1.high
       THEN IF (candle3.low - candle1.high) * 1000 > FVG_THRESHOLD_PERMILLE * candle1.high
            THEN <<Zone(d, i, "BULLISH_FVG", candle1.low, candle3.low)>>
            ELSE <<>>
       ELSE IF candle3.high < candle1.low
       THEN IF (candle1.low - candle3.high) * 1000 > FVG_THRESHOLD_PERMILLE * candle1.low
            THEN <<Zone(d, i, "BEARISH_FVG", candle3.high, candle1.low)>>
            ELSE <<>>
       ELSE <<>>

\* The body of the detection loop for iloc position i (the third candle):
\* the zone the window contributes, if any.
WindowZones(d, i) ==
    LET candle1 == d[i - 1]
        candle2 == d[i]
        candle3 == d[i + 1]
    IN IF \E val \in {candle1.high, candle1.low, candle2.high, candle2.low,
                      candle3.high, candle3.low, candle2.volume} : val <= 0
       THEN <<>>
       ELSE IF candle3.low > candle1.high
       THEN IF (candle3.low - candle1.high) * 1000 > FVG_THRESHOLD_PERMILLE * candle1.high
            THEN <<Zone(d, i, "BULLISH_FVG", candle1.high, candle3.low)>>
            ELSE <<>>
       ELSE IF candle3.high < candle1.low
       THEN IF (candle1.low - candle3.high) * 1000 > FVG_THRESHOLD_PERMILLE * candle1.low
            THEN <<Zone(d, i, "BEARISH_FVG", candle3.high, candle1.low)>>
            ELSE <<>>
       ELSE <<>>

RECURSIVE AllZones(_, _)
AllZones(d, i) ==
    IF i > Len(d) - 1 THEN <<>> ELSE WindowZones(d, i) \o AllZones(d, i + 1)

\* An age filter that keeps every zone.
IsActive_all(z) == z.age >= 0

IsActive(z) == z.age <= FVG_MAX_AGE
IsUnfilled(z) == z.status = "UNFILLED"
IsFilled(z) == z.status = "FILLED"

detect_fair_value_gaps(d) ==
    IF Len(d) < 3 THEN <<>>
    ELSE LET active_fvg_zones == SelectSeq(AllZones(d, 2), IsActive)
         IN SelectSeq(active_fvg_zones, IsUnfilled)
                \o SelectSeq(active_fvg_zones, IsFilled)

\* A new candle arrives and the detector runs on the longer sequence
AppendCandle(c) ==
    /\ Len(df) < MaxCandles
    /\ df' = Append(df, c)
    /\ fvg_zones' = detect_fair_value_gaps(df')
    /\ UNCHANGED confVars
    /\ UNCHANGED verdictVars
    /\ UNCHANGED extVars

\* A quiet stretch of FVG_MAX_AGE candles follows and the detector runs again
ExtendHistory ==
    /\ Len(df) <= MaxCandles
    /\ df' = df \o [i \in 1..FVG_MAX_AGE |-> BaseCandle]
    /\ fvg_zones' = detect_fair_value_gaps(df')
    /\ UNCHANGED confVars
    /\ UNCHANGED verdictVars
    /\ UNCHANGED extVars

-----------------------------------------------------------------------------
(* Confluence engine (opportunity_scanner.py).  Weights are in hundredths,  *)
(* signal strengths in sixtieths (a share of at most six signals is exact). *)
(* A ratio is kept as numerator and denominator.                            *)

TIMEFRAMES == <<"15m", "1h", "4h", "1d">>

TIMEFRAME_WEIGHTS ==
    [tf \in {"15m", "1h", "4h", "1d"} |->
        CASE tf = "1d" -> 35 [] tf = "4h" -> 30 [] tf = "1h" -> 25 [] tf = "15m" -> 10]

STRONG_CONFLUENCE_THRESHOLD_X10 == 8
ConflictStrengthX10 == 3

VerdictDirections == {"BULLISH", "BEARISH", "NEUTRAL"}
StrengthUnit == 60      \* strength units per 1.0

\* bullish and bearish signals counted on one timeframe
SignalCounts == (0..3) \X (0..3)

\* _analyze_single_timeframe: direction and strength from the counts of
\* bullish and bearish signals (every signal is one or the other)
analyze_single_timeframe(bullish_signals, bearish_signals) ==
    LET signals_count == bullish_signals + bearish_signals
    IN IF signals_count = 0
       THEN [dominant_direction |-> "NEUTRAL", signal_strength |-> 0]
       ELSE IF bullish_signals > bearish_signals /\ 2 * bullish_signals > signals_count
       THEN [dominant_direction |-> "BULLISH",
             signal_strength |-> (bullish_signals * StrengthUnit) \div signals_count]
       ELSE IF bearish_signals > bullish_signals /\ 2 * bearish_signals > signals_count
       THEN [dominant_direction |-> "BEARISH",
             signal_strength |-> (bearish_signals * StrengthUnit) \div signals_count]
       ELSE [dominant_direction |-> "NEUTRAL",
             signal_strength |->
                 (Max2(bullish_signals, bearish_signals) * StrengthUnit)
                     \div (2 * signals_count)]

TimeframeVerdicts == {analyze_single_timeframe(c[1], c[2]) : c \in SignalCounts}

\* every way of analysing a subset of the configured timeframes
TimeframeResults ==
    UNION {[S -> TimeframeVerdicts] : S \in SUBSET {TIMEFRAMES[i] : i \in DOMAIN TIMEFRAMES}}

\* the weighted votes of the analysed timeframes k..4 that point to direction dir
RECURSIVE WeightedVotes(_, _, _)
WeightedVotes(res, dir, k) ==
    IF k > Len(TIMEFRAMES) THEN 0
    ELSE LET tf == TIMEFRAMES[k]
             vote == IF tf \in DOMAIN res /\ res[tf].dominant_direction = dir
                     THEN TIMEFRAME_WEIGHTS[tf] * res[tf].signal_strength
                     ELSE 0
         IN vote + WeightedVotes(res, dir, k + 1)

\* A total that leaves the neutral votes out.
total_weight_directional(bullish_weight, bearish_weight, neutral_weight) ==
    bullish_weight + bearish_weight

total_weight(bullish_weight, bearish_weight, neutral_weight) ==
    bullish_weight + bearish_weight + neutral_weight

Ratio(n, d) == [num |-> n, den |-> d]

NoAnalysis ==
    [timeframes_analyzed |-> {}, confluence_score |-> Ratio(0, 1),
     agreement_count |-> 0, strong_signals |-> FALSE,
     conflicting_signals |-> {}, dominant_direction |-> "NONE"]

analyze_timeframe_confluence(res) ==
    LET bullish_weight == WeightedVotes(res, "BULLISH", 1)
        bearish_weight == WeightedVotes(res, "BEARISH", 1)
        neutral_weight == WeightedVotes(res, "NEUTRAL", 1)
        total == total_weight(bullish_weight, bearish_weight, neutral_weight)
        dominant_dir ==
            IF bullish_weight > bearish_weight /\ bullish_weight > neutral_weight
            THEN "BULLISH"
            ELSE IF bearish_weight > bullish_weight /\ bearish_weight > neutral_weight
            THEN "BEARISH"
            ELSE "NEUTRAL"
        score == Ratio(CASE dominant_dir = "BULLISH" -> bullish_weight
                         [] dominant_dir = "BEARISH" -> bearish_weight
                         [] OTHER -> neutral_weight, total)
    IN IF total > 0
       THEN [timeframes_analyzed |-> DOMAIN res,
             confluence_score |-> score,
             agreement_count |->
                 Cardinality({tf \in DOMAIN res : res[tf].dominant_direction = dominant_dir}),
             strong_signals |-> score.num * 10 >= STRONG_CONFLUENCE_THRESHOLD_X10 * score.den,
             conflicting_signals |->
                 {tf \in DOMAIN res : /\ res[tf].dominant_direction # dominant_dir
                                      /\ res[tf].signal_strength * 10
                                             > ConflictStrengthX10 * StrengthUnit},
             dominant_direction |-> dominant_dir]
       ELSE [timeframes_analyzed |-> DOMAIN res, confluence_score |-> Ratio(0, 1),
             agreement_count |-> 0, strong_signals |-> FALSE,
             conflicting_signals |-> {}, dominant_direction |-> "NEUTRAL"]

\* The engine runs on the verdicts of the analysed timeframes
RunConfluence ==
    /\ confluence_analysis = NoAnalysis
    /\ confluence_analysis' = analyze_timeframe_confluence(timeframe_results)
    /\ UNCHANGED timeframe_results
    /\ UNCHANGED lateVars
    /\ UNCHANGED <<confVars, verdictVars, gapVars, scoreVars, configVars, fetchVars, gateVars, adapterVars, stageVars>>

-----------------------------------------------------------------------------
(* Opportunity score (opportunity_scanner.py).  Scores are integers in      *)
(* units of 1/10000 point.  Gap and pattern strengths and volume ratios are *)
(* in tenths, r squared values in tenths, confidences in percent, momentum  *)
(* and confluence strength in thousandths.                                  *)

POINT == 100 * 100

FvgCap == 22 * POINT
TrendlineCap == 18 * POINT
PatternCap == 22 * POINT
VolumeCap == 12 * POINT
MomentumCap == 8 * POINT
ConfluenceCap == 18 * POINT
ScoreCap == 100 * POINT
MIN_TIMEFRAMES_AGREE == 2

\* A cap that lets every value through.
CappedAt_off(x, cap) == x

\* min(x, cap)
CappedAt(x, cap) == IF x <= cap THEN x ELSE cap

\* round(x, 1): to the nearest tenth of a point, a tie going to the even tenth
Round1(x) ==
    LET tenth == POINT \div 10
        q == x \div tenth
        r == x % tenth
    IN IF 2 * r > tenth \/ (2 * r = tenth /\ q % 2 = 1)
       THEN (q + 1) * tenth ELSE q * tenth

\* fvg['strength'] * 1.8, * 1.5 if volume confirmed, * 2 if near the price
FvgBaseScore(fvg) ==
    LET base == fvg.strength * 1800
        confirmed == IF fvg.volume_confirmed THEN (base * 3) \div 2 ELSE base
    IN IF fvg.near_price THEN confirmed * 2 ELSE confirmed

RECURSIVE FvgScoreSum(_)
FvgScoreSum(zones) ==
    IF zones = <<>> THEN 0
    ELSE (IF Head(zones).status = "UNFILLED" THEN FvgBaseScore(Head(zones)) ELSE 0)
         + FvgScoreSum(Tail(zones))

TrendlineScore(tl) ==
    IF tl.kind = "none" THEN 0
    ELSE IF tl.resistance_break THEN TrendlineCap
    ELSE IF tl.support_break THEN TrendlineCap
    ELSE (tl.r_squared_high + tl.r_squared_low) * 4500

RECURSIVE PatternScoreSum(_)
PatternScoreSum(patterns) ==
    IF patterns = <<>> THEN 0
    ELSE (IF Head(patterns).confidence > 70
          THEN Head(patterns).strength * 18 * Head(patterns).confidence ELSE 0)
         + PatternScoreSum(Tail(patterns))

VolumeScore(volume) ==
    IF volume.volume_spike THEN CappedAt(volume.volume_ratio * 2400, VolumeCap) ELSE 0

Abs(x) == IF x < 0 THEN -x ELSE x

\* price_data shorter than 10 values is momentum "short"
MomentumScore(momentum) ==
    IF momentum.enough_prices THEN CappedAt(Abs(momentum.permille) * 800, MomentumCap) ELSE 0

MultiTimeframeScore(mtf) ==
    LET base == mtf.confluence_permille * 90
        total_timeframes == mtf.total_timeframes
        agreed == IF mtf.agreement_count >= MIN_TIMEFRAMES_AGREE /\ total_timeframes >= 2
                  THEN base + (mtf.agreement_count * 9 * POINT) \div total_timeframes
                       + (IF mtf.agreement_count = total_timeframes /\ total_timeframes >= 3
                          THEN 4 * POINT ELSE 0)
                  ELSE base
        strong == agreed + mtf.strong_signals * 25000
        conflicted == strong - mtf.conflicting_signals * 18000
    IN Max2(0, CappedAt(conflicted, ConfluenceCap))

score_opportunity(a) ==
    LET fvg_score == CappedAt(FvgScoreSum(a.fvg_zones), FvgCap)
        trendline_score == CappedAt(TrendlineScore(a.trendlines), TrendlineCap)
        pattern_score == CappedAt(PatternScoreSum(a.patterns), PatternCap)
        volume_score == VolumeScore(a.volume)
        momentum_score == MomentumScore(a.momentum)
        signals_count ==
            (IF fvg_score > 10 * POINT THEN 1 ELSE 0)
            + (IF trendline_score > 10 * POINT THEN 1 ELSE 0)
            + (IF pattern_score > 10 * POINT THEN 1 ELSE 0)
            + (IF volume_score > 5 * POINT THEN 1 ELSE 0)
        confluence_score ==
            IF a.multi_timeframe.present THEN MultiTimeframeScore(a.multi_timeframe)
            ELSE IF signals_count >= 3 THEN 10 * POINT
            ELSE IF signals_count = 2 THEN 5 * POINT
            ELSE 0
        score == fvg_score + trendline_score + pattern_score + volume_score
                 + momentum_score + confluence_score
    IN [total |-> CappedAt(score, ScoreCap),
        total_signals |-> signals_count,
        score_breakdown |->
            [fvg |-> Round1(fvg_score), trendlines |-> Round1(trendline_score),
             patterns |-> Round1(pattern_score), volume |-> Round1(volume_score),
             momentum |-> Round1(momentum_score), confluence |-> Round1(confluence_score)]]

NoOpportunity ==
    [total |-> 0, total_signals |-> -1,
     score_breakdown |-> [fvg |-> 0, trendlines |-> 0, patterns |-> 0,
                          volume |-> 0, momentum |-> 0, confluence |-> 0]]

\* Analyzer outputs the score is computed from
StrongGap == [strength |-> 150, volume_confirmed |-> TRUE, near_price |-> TRUE,
              status |-> "UNFILLED"]
WeakGap == [strength |-> 20, volume_confirmed |-> FALSE, near_price |-> FALSE,
            status |-> "UNFILLED"]
ClosedGap == [strength |-> 150, volume_confirmed |-> TRUE, near_price |-> TRUE,
              status |-> "FILLED"]
FvgInputs == {<<>>, <<WeakGap>>, <<StrongGap>>, <<ClosedGap, WeakGap>>, <<StrongGap, StrongGap>>}

Trendline(k, rb, sb, h, l) ==
    [kind |-> k, resistance_break |-> rb, support_break |-> sb,
     r_squared_high |-> h, r_squared_low |-> l]
TrendlineInputs ==
    {Trendline("none", FALSE, FALSE, 0, 0), Trendline("lines", TRUE, FALSE, 9, 9),
     Trendline("lines", FALSE, TRUE, 2, 3), Trendline("lines", FALSE, FALSE, 10, 10)}

SurePattern == [strength |-> 100, confidence |-> 95]
FairPattern == [strength |-> 75, confidence |-> 80]
DoubtfulPattern == [strength |-> 100, confidence |-> 70]
PatternInputs == {<<>>, <<DoubtfulPattern>>, <<FairPattern>>, <<SurePattern, SurePattern>>}

VolumeInputs ==
    {[volume_spike |-> FALSE, volume_ratio |-> 10], [volume_spike |-> TRUE, volume_ratio |-> 21],
     [volume_spike |-> TRUE, volume_ratio |-> 1000]}

MomentumInputs ==
    {[enough_prices |-> FALSE, permille |-> 0], [enough_prices |-> TRUE, permille |-> -30],
     [enough_prices |-> TRUE, permille |-> 250]}

NoMultiTimeframe ==
    [present |-> FALSE, confluence_permille |-> 0, agreement_count |-> 0,
     total_timeframes |-> 0, strong_signals |-> 0, conflicting_signals |-> 0]

\* results of analyze_timeframe_confluence: the strong signal is there exactly
\* when the score reaches the strong threshold, conflicting timeframes are
\* among those that do not agree
MultiTimeframeInputs ==
    {NoMultiTimeframe} \cup
    {m \in [present : {TRUE}, confluence_permille : {0, 500, 1000},
            agreement_count : 0..Len(TIMEFRAMES), total_timeframes : {0, 2, Len(TIMEFRAMES)},
            strong_signals : {0, 1}, conflicting_signals : {0, 1, 2}] :
        /\ m.agreement_count + m.conflicting_signals <= m.total_timeframes
        /\ m.strong_signals = 1 <=> m.confluence_permille >= STRONG_CONFLUENCE_THRESHOLD_X10 * 100}

AnalysisInputs ==
    [fvg_zones : FvgInputs, trendlines : TrendlineInputs, patterns : PatternInputs,
     volume : VolumeInputs, momentum : MomentumInputs, multi_timeframe : MultiTimeframeInputs]

NoInput == [fvg_zones |-> <<>>]

\* The scanner scores one analysed symbol
ScoreAnalysis ==
    /\ analysis # NoInput
    /\ opportunity = NoOpportunity
    /\ opportunity' = score_opportunity(analysis)
    /\ UNCHANGED analysis
    /\ UNCHANGED lateVars
    /\ UNCHANGED <<confVars, verdictVars, gapVars, confluenceVars, configVars, fetchVars, gateVars, adapterVars, stageVars>>

-----------------------------------------------------------------------------
(* Configuration (config/settings.py) and the construction of the           *)
(* confirmation system.  Weights are in hundredths.                         *)

AllTimeframes == {"5m", "15m", "1h", "4h", "1d"}

DefaultWeights == [tf \in {"15m", "1h", "4h", "1d"} |-> TIMEFRAME_WEIGHTS[tf]]
LightWeights == [DefaultWeights EXCEPT !["15m"] = 7]
HeavyWeights == [DefaultWeights EXCEPT !["15m"] = 20]
HalfWeights == [tf \in {"1h", "4h"} |-> 40]
WeightMaps == {DefaultWeights, LightWeights, HeavyWeights, HalfWeights}

RECURSIVE SumValues(_, _)
SumValues(w, keys) ==
    IF keys = {} THEN 0
    ELSE LET k == CHOOSE x \in keys : TRUE
         IN w[k] + SumValues(w, keys \ {k})

WeightLow == 95
WeightHigh == 105

\* validate_timeframe_weights: TRUE when no ValueError is raised
validate_timeframe_weights(v) ==
    LET total == SumValues(v, DOMAIN v)
    IN WeightLow <= total /\ total <= WeightHigh

\* validate_primary_timeframe: TRUE when no ValueError is raised
validate_primary_timeframe(v, values) == v \in values.timeframes

SettingsInputs ==
    [timeframes : SUBSET AllTimeframes, primary_timeframe : AllTimeframes,
     timeframe_weights : WeightMaps]

NoSettings == [timeframes |-> {}, primary_timeframe |-> "", timeframe_weights |-> <<>>]

\* settings = TradingSettings() at import: the validators run, an error is re-raised
LoadSettings(values) ==
    /\ config_status = "unloaded"
    /\ settings' = values
    /\ config_status' =
          IF /\ validate_primary_timeframe(values.primary_timeframe, values)
             /\ validate_timeframe_weights(values.timeframe_weights)
          THEN "loaded" ELSE "fatal"
    /\ UNCHANGED confirmation_timeframe
    /\ UNCHANGED lateVars
    /\ UNCHANGED <<confVars, verdictVars, gapVars, confluenceVars, scoreVars, fetchVars, gateVars, adapterVars, stageVars>>

\* ConfirmationCandleSystem.__init__ in a process whose configuration loaded
BuildConfirmationSystem ==
    /\ config_status = "loaded"
    /\ confirmation_timeframe = ""
    /\ confirmation_timeframe' = "5m"
    /\ UNCHANGED <<settings, config_status>>
    /\ UNCHANGED lateVars
    /\ UNCHANGED <<confVars, verdictVars, gapVars, confluenceVars, scoreVars, fetchVars, gateVars, adapterVars, stageVars>>

-----------------------------------------------------------------------------
(* Candle cache of the dashboard (flask_dashboard.py fetch_and_cache_data)  *)

MaxFetches == 4

CacheKeys == {"BTCUSDT_1h", "BTCUSDT_4h", "ETHUSDT_1h"}

\* what the exchange answers: 1000 candles, fewer than 500, nothing (None, an
\* empty list or an exception inside get_ohlcv)
SourceOutcomes == {"candles", "short", "fail"}

NoCandles == [kind |-> "none", fetch |-> 0]
LiveCandles(n) == [kind |-> "live", fetch |-> n]
DemoCandles(n) == [kind |-> "demo", fetch |-> n]

NoFetch == [n |-> 0, key |-> "", outcome |-> "", queried |-> FALSE]

\* create_demo_data_for_symbol: 500 random candles replace the cache entry
create_demo_data_for_symbol(cache, key, n) == [cache EXCEPT ![key] = DemoCandles(n)]

fetch_and_cache_data(key, outcome) ==
    /\ last_fetch.n < MaxFetches
    /\ LET n == last_fetch.n + 1
       IN IF ~exchange_connected \/ demo_mode
          THEN /\ data_cache' = create_demo_data_for_symbol(data_cache, key, n)
               /\ demo_mode' = demo_mode
               /\ last_fetch' = [n |-> n, key |-> key, outcome |-> outcome, queried |-> FALSE]
          ELSE /\ last_fetch' = [n |-> n, key |-> key, outcome |-> outcome, queried |-> TRUE]
               /\ CASE outcome = "fail" ->
                         /\ demo_mode' = TRUE
                         /\ data_cache' = create_demo_data_for_symbol(data_cache, key, n)
                    [] outcome = "short" ->
                         /\ demo_mode' = demo_mode
                         /\ data_cache' = create_demo_data_for_symbol(data_cache, key, n)
                    [] OTHER ->
                         /\ demo_mode' = demo_mode
                         /\ data_cache' = [data_cache EXCEPT ![key] = LiveCandles(n)]
    /\ UNCHANGED exchange_connected
    /\ UNCHANGED lateVars
    /\ UNCHANGED <<confVars, verdictVars, gapVars, confluenceVars, scoreVars, configVars, gateVars, adapterVars, stageVars>>

-----------------------------------------------------------------------------
(* Warm-up and alert cooldown gates of the monitoring pass                  *)
(* (flask_dashboard.py monitor_all_symbols, check_symbol_for_signals).      *)
(* Time is in minutes: 180 seconds are 3 minutes, 600 seconds are 10.       *)

MaxUptime == 13

system_start_time == 0
WarmupMinutes == 3
alert_cooldown == 10

Crossings == {"none", "above", "below"}
MonitoredSymbol == CHOOSE s \in Symbols : TRUE

AlertTypes ==
    {"EMA50_cross_SMA50_up", "EMA50_cross_SMA50_down",
     "EMA50_cross_SMA200_up", "EMA50_cross_SMA200_down"}
AlertKeys == {<<s, a>> : s \in Symbols, a \in AlertTypes}

CrossSignal(cross, up, down) ==
    CASE cross = "above" -> <<[direction |-> "LONG", alert_type |-> up]>>
      [] cross = "below" -> <<[direction |-> "SHORT", alert_type |-> down]>>
      [] OTHER -> <<>>

\* the signals list of check_symbol_for_signals
SignalsFound(cross50, cross200) ==
    CrossSignal(cross50, "EMA50_cross_SMA50_up", "EMA50_cross_SMA50_down")
        \o CrossSignal(cross200, "EMA50_cross_SMA200_up", "EMA50_cross_SMA200_down")

\* A warm-up that ends one minute early.
InWarmup_short(t) == t - system_start_time < WarmupMinutes - 1

\* current_time - self.system_start_time < 180
InWarmup(t) == t - system_start_time < WarmupMinutes

eligible_by_cooldown(la, key, t) == ~ (la[key] # NoTime /\ t - la[key] < alert_cooldown)

\* the loop over signals: [last_alerts, handed], handed being the payloads given
\* to store_signal_for_confirmation
RECURSIVE GateAll(_, _, _, _)
GateAll(g, symbol, sigs, t) ==
    IF sigs = <<>> THEN g
    ELSE LET key == <<symbol, Head(sigs).alert_type>>
         IN IF eligible_by_cooldown(g.last_alerts, key, t)
            THEN GateAll([last_alerts |-> [g.last_alerts EXCEPT ![key] = t],
                          handed |-> Append(g.handed, [symbol |-> symbol,
                                                       direction |-> Head(sigs).direction])],
                         symbol, Tail(sigs), t)
            ELSE GateAll(g, symbol, Tail(sigs), t)

NoPass == [time |-> NoTime, found |-> <<>>, handed |-> <<>>]

\* One pass of monitor_all_symbols over the monitored symbol, whose latest two
\* candles show the given crossings
MonitorPass(cross50, cross200) ==
    LET found == SignalsFound(cross50, cross200)
    IN IF InWarmup(now) \/ ~exchange_connected
       THEN /\ last_pass' = [time |-> now, found |-> found, handed |-> <<>>]
            /\ UNCHANGED <<last_alerts, symbol_signal_history, confirmation_cache,
                           active_alerts, beeps, skipped>>
       ELSE LET g == GateAll([last_alerts |-> last_alerts, handed |-> <<>>],
                             MonitoredSymbol, found, now)
                st == StoreAll([history |-> symbol_signal_history,
                                cache |-> confirmation_cache,
                                alerts |-> active_alerts,
                                beeps |-> beeps,
                                skipped |-> {}], g.handed, now, audio_enabled)
            IN /\ last_alerts' = g.last_alerts
               /\ last_pass' = [time |-> now, found |-> found, handed |-> g.handed]
               /\ symbol_signal_history' = st.history
               /\ confirmation_cache' = st.cache
               /\ active_alerts' = st.alerts
               /\ beeps' = st.beeps
               /\ skipped' = st.skipped

\* One iteration of the driver loop: the pass, then the loop sleeps
monitor_with_gates(cross50, cross200) ==
    /\ pc = "monitor"
    /\ pc' = "sleep"
    /\ MonitorPass(cross50, cross200)
    /\ UNCHANGED <<now, market, audio_enabled>>
    /\ UNCHANGED lateVars
    /\ UNCHANGED <<verdictVars, gapVars, confluenceVars, scoreVars, configVars, fetchVars, adapterVars,
                   stageVars>>

\* a minute passes between two passes of the driver loop
MinutePasses ==
    /\ pc = "sleep"
    /\ pc' = "monitor"
    /\ now < MaxUptime
    /\ now' = now + 1
    /\ UNCHANGED <<market, audio_enabled, symbol_signal_history,
                   confirmation_cache, active_alerts, beeps, skipped>>
    /\ UNCHANGED <<verdictVars, gapVars, extVars>>

-----------------------------------------------------------------------------
(* The driver loop watching the latest two candles of the primary timeframe  *)
(* (1h): the pair, and the crossover it shows, stays the same until the next *)
(* candle opens.                                                             *)

MaxCrossMinutes == 95      \* the clock of this loop stops here

PrimaryCandleMinutes == 60

\* One pass of monitor_all_symbols over the cached primary candles
monitor_latest_candles == monitor_with_gates(crossover.cross50, crossover.cross200)

\* a minute passes and the latest candle pair is still the same
MinuteOfCandle ==
    /\ pc = "sleep"
    /\ pc' = "monitor"
    /\ now < MaxCrossMinutes
    /\ now + 1 - crossover.since < PrimaryCandleMinutes
    /\ now' = now + 1
    /\ UNCHANGED <<market, audio_enabled, symbol_signal_history,
                   confirmation_cache, active_alerts, beeps, skipped>>
    /\ UNCHANGED <<verdictVars, gapVars, extVars>>

\* a minute passes and the next primary candle opens: the latest pair is a
\* new one and shows its own crossings
NextCandle(cross50, cross200) ==
    /\ pc = "sleep"
    /\ pc' = "monitor"
    /\ now < MaxCrossMinutes
    /\ now + 1 - crossover.since >= PrimaryCandleMinutes
    /\ now' = now + 1
    /\ crossover' = [since |-> now + 1, cross50 |-> cross50, cross200 |-> cross200]
    /\ UNCHANGED <<market, audio_enabled, symbol_signal_history,
                   confirmation_cache, active_alerts, beeps, skipped>>
    /\ UNCHANGED <<verdictVars, gapVars, confluenceVars, scoreVars, configVars,
                   fetchVars, gateVars, adapterVars, stageVars, stage_log, request>>

-----------------------------------------------------------------------------
(* Bitunix exchange adapter (services/exchanges/bitunix_adapter.py)         *)

MaxClientCalls == 5

\* where connect() can raise: building the config, building the client, the
\* test request; or nowhere
ConnectOutcomes == {"ok", "config_error", "client_error", "test_error"}
\* what the client does with a data request
QueryOutcomes == {"data", "error"}

NewAdapter == [connected |-> FALSE, public_client |-> "None"]
NoCall == [op |-> "none", was_connected |-> FALSE, result |-> "none", queried |-> FALSE]
NoTrace == [event |-> "created", call |-> NoCall, client_calls |-> 0]

\* A failed connect that leaves the flag as it was.
ConnectedAfterFailure_kept(a) == a.connected

\* the except branch of connect(): self._connected = False
ConnectedAfterFailure(a) == FALSE

connect(outcome) ==
    /\ adapter_trace.client_calls < MaxClientCalls
    /\ adapter' =
          CASE outcome = "ok" -> [connected |-> TRUE, public_client |-> "client"]
            [] outcome = "test_error" ->
                  [connected |-> ConnectedAfterFailure(adapter), public_client |-> "client"]
            [] OTHER ->
                  [connected |-> ConnectedAfterFailure(adapter),
                   public_client |-> adapter.public_client]
    /\ adapter_trace' =
          [adapter_trace EXCEPT
              !.event = IF outcome = "ok" THEN "connect_ok" ELSE "connect_failed",
              !.client_calls = IF outcome \in {"ok", "test_error"} THEN @ + 1 ELSE @]
    /\ UNCHANGED lateVars
    /\ UNCHANGED <<confVars, verdictVars, gapVars, confluenceVars, scoreVars,
                   configVars, fetchVars, gateVars, stageVars>>

disconnect ==
    /\ adapter' = [connected |-> FALSE, public_client |-> "None"]
    /\ adapter_trace' = [adapter_trace EXCEPT !.event = "disconnected"]
    /\ UNCHANGED lateVars
    /\ UNCHANGED <<confVars, verdictVars, gapVars, confluenceVars, scoreVars,
                   configVars, fetchVars, gateVars, stageVars>>

\* get_tickers and get_ohlcv: the guard, then the request to the client
DataCall(op, outcome) ==
    /\ adapter_trace.client_calls < MaxClientCalls
    /\ IF ~adapter.connected \/ adapter.public_client = "None"
       THEN adapter_trace' =
               [adapter_trace EXCEPT
                   !.call = [op |-> op, was_connected |-> adapter.connected,
                             result |-> "ConnectionError", queried |-> FALSE]]
       ELSE adapter_trace' =
               [adapter_trace EXCEPT
                   !.call = [op |-> op, was_connected |-> adapter.connected,
                             result |-> outcome, queried |-> TRUE],
                   !.client_calls = @ + 1]
    /\ UNCHANGED adapter
    /\ UNCHANGED lateVars
    /\ UNCHANGED <<confVars, verdictVars, gapVars, confluenceVars, scoreVars,
                   configVars, fetchVars, gateVars, stageVars>>

get_tickers(outcome) == DataCall("get_tickers", outcome)
get_ohlcv(outcome) == DataCall("get_ohlcv", outcome)

-----------------------------------------------------------------------------
(* The four confirmation blocks applied to one signal and one frame          *)

\* the candle before the example candle: filler with a lower volume
QuietCandle == [FillerCandle EXCEPT !.volume = 7]
\* close 101.2, body ratio 13/20 = 0.65; after QuietCandle and eight filler
\* candles its volume ratio is 130/100 = 1.3
ExampleLong == [open |-> 999, high |-> 1015, low |-> 995, close |-> 1012, volume |-> 13]

CandleChoices == {FillerCandle, PerfectLong, PerfectShort, ModestLong, QuietCandle, ExampleLong}

FrameLengths == {4, 12, 17, 25}
FrameEnds == {k * CandleMinutes : k \in 0..4}

StageFrames ==
    {NoData} \cup {Frame(n, ts, <<c1, c2>>) :
                      n \in FrameLengths, ts \in FrameEnds,
                      c1 \in CandleChoices, c2 \in CandleChoices}

StageInputFrames ==
    [frame : StageFrames, direction : Directions,
     signal_price : {SignalPrice}, signal_time : {0}]

NoStageInput == [frame |-> NoData, direction |-> "NONE", signal_price |-> 0, signal_time |-> 0]

\* check_pending_confirmations asks the four blocks about one cache entry
RunStages ==
    /\ stage_input # NoStageInput
    /\ stage_output = <<>>
    /\ stage_output' =
          <<check_confirmation(stage_input.frame, stage_input.direction,
                               stage_input.signal_price, stage_input.signal_time),
            check_second_confirmation(stage_input.frame, stage_input.direction,
                                      stage_input.signal_price, stage_input.signal_time),
            check_third_confirmation(stage_input.frame, stage_input.direction,
                                     stage_input.signal_price, stage_input.signal_time),
            check_fourth_confirmation(stage_input.frame, stage_input.direction,
                                      stage_input.signal_price, stage_input.signal_time)>>
    /\ UNCHANGED stage_input
    /\ UNCHANGED lateVars
    /\ UNCHANGED <<confVars, verdictVars, gapVars, confluenceVars, scoreVars,
                   configVars, fetchVars, gateVars, adapterVars>>

-----------------------------------------------------------------------------
(* The request thread and the crossover shown by the primary candles, idle *)

NoRequest == [pc |-> "idle", route |-> "", di_used |-> 0, remaining |-> 0, response |-> "none"]
NoCrossover == [since |-> 0, cross50 |-> "none", cross200 |-> "none"]

-----------------------------------------------------------------------------
(* HTTP request handlers (flask_dashboard.py), run by a request thread while *)
(* the driver thread runs its loop.  The threads interleave between the      *)
(* steps below: the driver's insertion into confirmation_cache is one dict   *)
(* store, the handler's loop over confirmation_cache.items() takes one step  *)
(* per call of the dict iterator.                                            *)

\* GET /api/confirmations enters get_pending_confirmations: the iterator over
\* confirmation_cache.items() is created and remembers the dict's size.
get_confirmations_start ==
    /\ request.pc = "idle"
    /\ request' = [pc |-> "iterating", route |-> "/api/confirmations",
                   di_used |-> Cardinality(confirmation_cache),
                   remaining |-> Cardinality(confirmation_cache),
                   response |-> "none"]
    /\ UNCHANGED <<confVars, verdictVars, gapVars, confluenceVars, scoreVars, configVars,
                   fetchVars, gateVars, adapterVars, stageVars, stage_log, crossover>>

\* One call of the dict iterator: it raises RuntimeError when the dict's size
\* differs from the remembered one (the handler's except clause answers
\* success: False), yields the next entry, or ends the loop, after which the
\* handler lists the checked alerts and answers success: True.
get_confirmations_step ==
    /\ request.pc = "iterating"
    /\ request' =
          IF Cardinality(confirmation_cache) # request.di_used
          THEN [request EXCEPT !.pc = "idle", !.response = "error"]
          ELSE IF request.remaining = 0
          THEN [request EXCEPT !.pc = "idle", !.response = "ok"]
          ELSE [request EXCEPT !.remaining = @ - 1]
    /\ UNCHANGED <<confVars, verdictVars, gapVars, confluenceVars, scoreVars, configVars,
                   fetchVars, gateVars, adapterVars, stageVars, stage_log, crossover>>

\* The first alert with the requested symbol and direction (0 when none)
RequestedAlert(alerts, symbol, direction) ==
    LET hits == {i \in DOMAIN alerts : /\ alerts[i].symbol = symbol
                                       /\ alerts[i].direction = direction}
    IN IF hits = {} THEN 0 ELSE CHOOSE i \in hits : \A j \in hits : i <= j

\* What the handler answers for the alert at position i on market scenario m
ManualCheckResponse(alerts, i, m, t) ==
    IF i = 0 THEN "not_found"
    ELSE IF check_confirmation(get_confirmation_data(m, t), alerts[i].direction,
                               alerts[i].price, alerts[i].timestamp).confirmed
    THEN "confirmed" ELSE "unconfirmed"

\* A manual check that records its result in the alert.
api_check_confirmation_recording(symbol, direction, m) ==
    /\ request.pc = "idle"
    /\ LET i == RequestedAlert(active_alerts, symbol, direction)
           answer == ManualCheckResponse(active_alerts, i, m, now)
       IN /\ request' = [NoRequest EXCEPT !.route = "/api/confirmation",
                                          !.response = answer]
          /\ active_alerts' =
                IF i = 0 THEN active_alerts
                ELSE [active_alerts EXCEPT ![i].confirmation_status =
                         IF answer = "confirmed" THEN "CONFIRMED" ELSE "REJECTED"]
    /\ UNCHANGED <<now, pc, market, audio_enabled, symbol_signal_history,
                   confirmation_cache, beeps, skipped>>
    /\ UNCHANGED <<verdictVars, gapVars, confluenceVars, scoreVars, configVars,
                   fetchVars, gateVars, adapterVars, stageVars, stage_log, crossover>>

\* GET /api/confirmation/<symbol>/<direction>: the first block is run for
\* the first matching alert and its result is returned.
api_check_confirmation(symbol, direction, m) ==
    /\ request.pc = "idle"
    /\ LET i == RequestedAlert(active_alerts, symbol, direction)
           answer == ManualCheckResponse(active_alerts, i, m, now)
       IN /\ request' = [NoRequest EXCEPT !.route = "/api/confirmation",
                                          !.response = answer]
          /\ active_alerts' = active_alerts
    /\ UNCHANGED <<now, pc, market, audio_enabled, symbol_signal_history,
                   confirmation_cache, beeps, skipped>>
    /\ UNCHANGED <<verdictVars, gapVars, confluenceVars, scoreVars, configVars,
                   fetchVars, gateVars, adapterVars, stageVars, stage_log, crossover>>

-----------------------------------------------------------------------------
Signals == [symbol : Symbols, direction : Directions]

\* What one monitoring pass can find: nothing, one crossover of a symbol, or
\* two crossovers of the same symbol (EMA50 against SMA50 and against SMA200).
Batches ==
    {<<>>} \cup {<<sig>> : sig \in Signals}
           \cup {q \in {<<a, b>> : a \in Signals, b \in Signals} :
                    q[1].symbol = q[2].symbol}

InitConfluenceIdle ==
    /\ timeframe_results = <<>>
    /\ confluence_analysis = NoAnalysis

InitScoreIdle ==
    /\ analysis = NoInput
    /\ opportunity = NoOpportunity

InitConfigIdle ==
    /\ settings = NoSettings
    /\ config_status = "unloaded"
    /\ confirmation_timeframe = ""

InitFetchIdle ==
    /\ exchange_connected = TRUE
    /\ demo_mode = FALSE
    /\ data_cache = [k \in CacheKeys |-> NoCandles]
    /\ last_fetch = NoFetch

InitGateIdle ==
    /\ last_alerts = [k \in AlertKeys |-> NoTime]
    /\ last_pass = NoPass

InitAdapterIdle ==
    /\ adapter = NewAdapter
    /\ adapter_trace = NoTrace

InitStageIdle ==
    /\ stage_input = NoStageInput
    /\ stage_output = <<>>

InitLateIdle ==
    /\ stage_log = {}
    /\ request = NoRequest
    /\ crossover = NoCrossover

InitExt ==
    /\ InitLateIdle
    /\ InitStageIdle
    /\ InitConfluenceIdle
    /\ InitScoreIdle
    /\ InitConfigIdle
    /\ InitFetchIdle
    /\ InitGateIdle
    /\ InitAdapterIdle

Init ==
    /\ now = 0
    /\ pc = "monitor"
    /\ market = "down"
    /\ audio_enabled = TRUE
    /\ symbol_signal_history = [s \in AllSymbols |-> NoTime]
    /\ confirmation_cache = {}
    /\ active_alerts = <<>>
    /\ beeps = {}
    /\ skipped = {}
    /\ stage_results = <<>>
    /\ verdict = NoVerdict
    /\ df = <<>>
    /\ fvg_zones = <<>>
    /\ InitExt

Next ==
    \/ AdvanceTime
    \/ toggle_audio
    \/ \E batch \in Batches : monitor_all_symbols(batch)
    \/ \E m \in MarketScenarios : check_pending_confirmations(m)

Spec == Init /\ [][Next]_vars

-----------------------------------------------------------------------------
(* The verdict computation applied to every combination of stage results *)

InitVerdict ==
    /\ now = 0
    /\ pc = "monitor"
    /\ market = "down"
    /\ audio_enabled = TRUE
    /\ symbol_signal_history = [s \in AllSymbols |-> NoTime]
    /\ confirmation_cache = {}
    /\ active_alerts = <<>>
    /\ beeps = {}
    /\ skipped = {}
    /\ stage_results \in StageInputs
    /\ verdict = NoVerdict
    /\ df = <<>>
    /\ fvg_zones = <<>>
    /\ InitExt

NextVerdict == compute_verdict

SpecVerdict == InitVerdict /\ [][NextVerdict]_vars

(* The gap detector applied to growing candle sequences *)

NextGap ==
    \/ \E c \in GapCandles : AppendCandle(c)
    \/ ExtendHistory

SpecGap == Init /\ [][NextGap]_vars

-----------------------------------------------------------------------------
(* A watch list of eleven symbols that cross over together. *)

BurstBatch(k) == [i \in 1..k |-> [symbol |-> i, direction |-> "LONG"]]

BurstBatches == {BurstBatch(k) : k \in {0, 1, MaxActiveAlerts + 1}}

BurstScenarios == {"down", "long"}

NextBurst ==
    \/ AdvanceTime
    \/ toggle_audio
    \/ \E batch \in BurstBatches : monitor_all_symbols(batch)
    \/ \E m \in BurstScenarios : check_pending_confirmations(m)

SpecBurst == Init /\ [][NextBurst]_vars

(* The confluence engine applied to every set of per-timeframe verdicts *)

InitBase ==
    /\ now = 0
    /\ pc = "monitor"
    /\ market = "down"
    /\ audio_enabled = TRUE
    /\ symbol_signal_history = [s \in AllSymbols |-> NoTime]
    /\ confirmation_cache = {}
    /\ active_alerts = <<>>
    /\ beeps = {}
    /\ skipped = {}
    /\ stage_results = <<>>
    /\ verdict = NoVerdict
    /\ df = <<>>
    /\ fvg_zones = <<>>
    /\ InitLateIdle

InitConfluence ==
    /\ InitBase
    /\ timeframe_results \in TimeframeResults
    /\ confluence_analysis = NoAnalysis
    /\ InitScoreIdle
    /\ InitConfigIdle
    /\ InitFetchIdle
    /\ InitGateIdle
    /\ InitAdapterIdle
    /\ InitStageIdle

NextConfluence == RunConfluence

SpecConfluence == InitConfluence /\ [][NextConfluence]_vars

(* The opportunity score applied to analyzer outputs *)

InitScore ==
    /\ InitBase
    /\ InitConfluenceIdle
    /\ analysis \in AnalysisInputs
    /\ opportunity = NoOpportunity
    /\ InitConfigIdle
    /\ InitFetchIdle
    /\ InitGateIdle
    /\ InitAdapterIdle
    /\ InitStageIdle

NextScore == ScoreAnalysis

SpecScore == InitScore /\ [][NextScore]_vars

(* Start-up with every configuration *)

NextConfig ==
    \/ \E values \in SettingsInputs : LoadSettings(values)
    \/ BuildConfirmationSystem

SpecConfig == Init /\ [][NextConfig]_vars

(* Candle fetches against an exchange that answers or fails *)

InitFetch ==
    /\ InitBase
    /\ InitConfluenceIdle
    /\ InitScoreIdle
    /\ InitConfigIdle
    /\ exchange_connected \in BOOLEAN
    /\ demo_mode = FALSE
    /\ data_cache = [k \in CacheKeys |-> NoCandles]
    /\ last_fetch = NoFetch
    /\ InitGateIdle
    /\ InitAdapterIdle
    /\ InitStageIdle

NextFetch == \E key \in CacheKeys, outcome \in SourceOutcomes : fetch_and_cache_data(key, outcome)

SpecFetch == InitFetch /\ [][NextFetch]_vars

(* Monitoring passes from the start of the alert system *)

NextGate ==
    \/ MinutePasses
    \/ \E cross50 \in Crossings, cross200 \in Crossings : monitor_with_gates(cross50, cross200)

SpecGate == Init /\ [][NextGate]_vars

(* Calls made to an exchange adapter in any order *)

NextAdapter ==
    \/ \E outcome \in ConnectOutcomes : connect(outcome)
    \/ disconnect
    \/ \E outcome \in QueryOutcomes : get_tickers(outcome)
    \/ \E outcome \in QueryOutcomes : get_ohlcv(outcome)

SpecAdapter == Init /\ [][NextAdapter]_vars

(* The confirmation blocks applied to frames of every length and age *)

InitStage ==
    /\ InitBase
    /\ InitConfluenceIdle
    /\ InitScoreIdle
    /\ InitConfigIdle
    /\ InitFetchIdle
    /\ InitGateIdle
    /\ InitAdapterIdle
    /\ stage_input \in StageInputFrames
    /\ stage_output = <<>>

NextStage == RunStages

SpecStage == InitStage /\ [][NextStage]_vars

(* The driver loop with requests served by a request thread *)

NextRequests ==
    \/ AdvanceTime
    \/ \E batch \in Batches : monitor_all_symbols(batch)
    \/ \E m \in MarketScenarios : check_pending_confirmations(m)
    \/ get_confirmations_start
    \/ get_confirmations_step
    \/ \E symbol \in Symbols, direction \in Directions, m \in MarketScenarios :
          api_check_confirmation(symbol, direction, m)

SpecRequests == Init /\ [][NextRequests]_vars

(* Monitoring passes over primary candles that change once an hour *)

NextCross ==
    \/ monitor_latest_candles
    \/ MinuteOfCandle
    \/ \E cross50 \in Crossings, cross200 \in Crossings : NextCandle(cross50, cross200)

SpecCross == Init /\ [][NextCross]_vars

-----------------------------------------------------------------------------
(* Properties of the confirmation pipeline *)

Terminal(a) == a.confirmation_status \in {"CONFIRMED", "REJECTED"}

\* C1: an alert's confirmation status leaves PENDING only in a pass of
\* check_pending_confirmations that runs when at least 25 minutes have
\* elapsed since the signal's timestamp; no alert becomes terminal earlier.
TerminalOnlyAfterDelay ==
    [][\A i \in DOMAIN active_alerts : \A j \in DOMAIN active_alerts' :
          ( /\ AlertKey(active_alerts[i]) = AlertKey(active_alerts'[j])
            /\ active_alerts[i].confirmation_status = "PENDING"
            /\ Terminal(active_alerts'[j]) )
          => ( /\ pc = "check"
               /\ now - active_alerts[i].timestamp >= PendingMinutes )]_vars

\* An alert has received its verdict.
VerdictRecorded ==
    \E i \in DOMAIN active_alerts :
        /\ Terminal(active_alerts[i])
        /\ now - active_alerts[i].timestamp >= PendingMinutes

\* C2: signals of one symbol that come less than 30 minutes after an accepted
\* one are dropped: the confirmation cache and the active alerts never hold
\* two entries of one symbol whose timestamps are less than 30 minutes apart.
CooldownDropsSecondSignal ==
    /\ \A r1 \in confirmation_cache : \A r2 \in confirmation_cache :
          (r1 # r2 /\ r1.symbol = r2.symbol /\ r1.signal_time <= r2.signal_time)
          => r2.signal_time - r1.signal_time >= symbol_cooldown_minutes
    /\ \A i \in DOMAIN active_alerts : \A j \in DOMAIN active_alerts :
          (i < j /\ active_alerts[i].symbol = active_alerts[j].symbol)
          => active_alerts[j].timestamp - active_alerts[i].timestamp
                 >= symbol_cooldown_minutes

\* A signal was presented during the cooldown of its symbol and dropped.
SignalDroppedInCooldown ==
    \E s \in skipped :
        /\ symbol_signal_history[s] # NoTime
        /\ now - symbol_signal_history[s] < symbol_cooldown_minutes
        /\ Cardinality({r \in confirmation_cache : r.symbol = s}) = 1

\* C3: once an alert's status is CONFIRMED or REJECTED, no later step changes
\* its status or its recorded combined confidence.
VerdictIsFinal ==
    [][\A i \in DOMAIN active_alerts : \A j \in DOMAIN active_alerts' :
          ( /\ AlertKey(active_alerts[i]) = AlertKey(active_alerts'[j])
            /\ Terminal(active_alerts[i]) )
          => ( /\ active_alerts'[j].confirmation_status
                     = active_alerts[i].confirmation_status
               /\ active_alerts'[j].confirmation_confidence
                     = active_alerts[i].confirmation_confidence )]_vars

\* C4: the audio player is called for a signal only when its alert is
\* CONFIRMED; a PENDING or REJECTED alert has caused no beep.
AudioOnlyForConfirmed ==
    \A b \in beeps : \A i \in DOMAIN active_alerts :
        AlertKey(active_alerts[i]) = b.key
        => active_alerts[i].confirmation_status = "CONFIRMED"

\* Every per-candle check of the four blocks holds of the candles in frame f
\* for the cache entry r: the latest candle after each delay has the signal's
\* colour, body, volume, momentum and wick quality, continues the trend of
\* the candle before it, and no reversal shows in the last five candles.
AllChecksSatisfied(f, r) ==
    LET idx == TailOne(f, r.signal_time + fourth_confirmation_delay)
        c == Row(f, idx)
        prev == Row(f, idx - 1)
    IN /\ f.ok /\ f.rows >= 20
       /\ idx > 0
       /\ DirectionOk(c, r.direction)
       /\ BodyRatioAbove(c, 9)
       /\ VolumeRatioAbove(f, idx, 30)
       /\ MomentumOk(c, r.direction, r.signal_price, 2)
       /\ WicksBelow(c, 15)
       /\ \/ r.direction = "LONG" /\ c.close * 1000 > prev.close * 1005
          \/ r.direction = "SHORT" /\ c.close * 1000 < prev.close * 995
       /\ NoReversal(f, r.direction, r.signal_time)

\* The cache entry, if any, that a pass at the current time evaluates for
\* alert i.
DueEntries(i) ==
    {r \in get_pending_confirmations(confirmation_cache, now) :
        MatchingAlert(active_alerts, r) = i}

\* C6: CONFIRMED is reachable: when a pending entry is evaluated on candles
\* that satisfy every per-candle check of all four blocks, its alert becomes
\* CONFIRMED.
PerfectCandlesConfirm ==
    [][(pc = "check" /\ pc' = "monitor")
       => \A i \in DOMAIN active_alerts : \A r \in DueEntries(i) :
             AllChecksSatisfied(get_confirmation_data(market', now), r)
             => active_alerts'[i].confirmation_status = "CONFIRMED"]_vars

\* C7: no symbol ever has two alerts that are both PENDING.
OnePendingPerSymbol ==
    \A i \in DOMAIN active_alerts : \A j \in DOMAIN active_alerts :
        ( /\ i # j
          /\ active_alerts[i].symbol = active_alerts[j].symbol
          /\ active_alerts[i].confirmation_status = "PENDING" )
        => active_alerts[j].confirmation_status # "PENDING"

\* C8: a PENDING alert is never removed from the active alerts: it stays
\* until its verdict is recorded, however many signals are accepted.
PendingNeverDropped ==
    [][\A i \in DOMAIN active_alerts :
          active_alerts[i].confirmation_status = "PENDING"
          => \E j \in DOMAIN active_alerts' :
                AlertKey(active_alerts'[j]) = AlertKey(active_alerts[i])]_vars

\* Some block reports insufficient data for entry r on market scenario m.
SomeStageUndecided(m, t, r) ==
    \E k \in 1..4 : StageResults(m, t, r)[k].outcome \in {"insufficient", "waiting"}

\* C9: when a block reports insufficient data at evaluation time, the alert
\* stays PENDING and is left for a later pass.
InsufficientDataStaysPending ==
    [][(pc = "check" /\ pc' = "monitor")
       => \A i \in DOMAIN active_alerts : \A r \in DueEntries(i) :
             ( /\ active_alerts[i].confirmation_status = "PENDING"
               /\ SomeStageUndecided(market', now, r) )
             => active_alerts'[i].confirmation_status = "PENDING"]_vars
-----------------------------------------------------------------------------
(* Properties of the verdict computation *)

SumConfidence(res) ==
    res[1].confidence + res[2].confidence + res[3].confidence + res[4].confidence

\* C5: the verdict is CONFIRMED exactly when all four stages returned
\* confirmed and REJECTED otherwise, and its combined confidence is the
\* arithmetic mean of the four stage confidences; confidences of
\* 100, 80, 50 and 90 percent give 80.0 percent and REJECTED.
VerdictFromStages ==
    verdict # NoVerdict
    => /\ verdict.status \in {"CONFIRMED", "REJECTED"}
       /\ (verdict.status = "CONFIRMED")
             <=> (\A k \in 1..4 : stage_results[k].confirmed)
       /\ 4 * verdict.confidence = SumConfidence(stage_results)
       /\ stage_results = <<ByConfidence(100, 60), ByConfidence(80, 80),
                            ByConfidence(50, 85), ByConfidence(90, 90)>>
          => verdict = [status |-> "REJECTED", confidence |-> 80 * PCT]

\* The verdict of the example has been computed.
ExampleVerdictComputed ==
    /\ stage_results # <<>>
    /\ stage_results = <<ByConfidence(100, 60), ByConfidence(80, 80),
                         ByConfidence(50, 85), ByConfidence(90, 90)>>
    /\ verdict.status = "REJECTED"
    /\ verdict.confidence = 80 * PCT

-----------------------------------------------------------------------------
(* Properties of the gap detector *)

\* The zones reported for the window whose third candle is df[i]
ZonesOfWindow(i) ==
    {k \in DOMAIN fvg_zones : fvg_zones[k].formation_index = i - 2}

BullishWindow(i) ==
    /\ df[i].low > df[i - 2].high
    /\ (df[i].low - df[i - 2].high) * 1000 > FVG_THRESHOLD_PERMILLE * df[i - 2].high

ReportedOnceAsBullish(i) ==
    /\ Cardinality(ZonesOfWindow(i)) = 1
    /\ \A k \in ZonesOfWindow(i) :
          /\ fvg_zones[k].type = "BULLISH_FVG"
          /\ fvg_zones[k].gap_low = df[i - 2].high
          /\ fvg_zones[k].gap_high = df[i].low

ValidWindow(i) ==
    \A val \in {df[i - 2].high, df[i - 2].low, df[i - 1].high, df[i - 1].low,
                df[i].high, df[i].low, df[i - 1].volume} : val > 0

FilledStaysFilled ==
    \A n \in 3..Len(df) :
        LET earlier == detect_fair_value_gaps(SubSeq(df, 1, n))
        IN \A k \in DOMAIN earlier : \A j \in DOMAIN fvg_zones :
              ( /\ earlier[k].status = "FILLED"
                /\ earlier[k].formation_index = fvg_zones[j].formation_index )
              => fvg_zones[j].status = "FILLED"

\* A gap that was already filled before the latest candle arrived is still
\* reported, as FILLED, after a candle that does not touch the gap.
FilledGapExtended ==
    /\ Len(df) >= 5
    /\ \E k \in DOMAIN fvg_zones :
          /\ fvg_zones[k].status = "FILLED"
          /\ is_gap_filled(SubSeq(df, 1, Len(df) - 1), fvg_zones[k].formation_index + 1,
                           fvg_zones[k].gap_low, fvg_zones[k].gap_high)
          /\ ~ is_gap_filled_latest(df, fvg_zones[k].formation_index + 1,
                                    fvg_zones[k].gap_low, fvg_zones[k].gap_high)

-----------------------------------------------------------------------------
(* Properties of the confluence engine *)

\* C12: for every set of per-timeframe verdicts (any directions, strengths
\* between 0 and 1, any subset of the configured timeframes) the confluence
\* score lies in [0,1].
ConfluenceScoreInUnitInterval ==
    /\ confluence_analysis.confluence_score.den > 0
    /\ 0 <= confluence_analysis.confluence_score.num
    /\ confluence_analysis.confluence_score.num <= confluence_analysis.confluence_score.den

\* The engine has scored verdicts that disagree: the score is strictly
\* between 0 and 1 and a neutral vote takes part in the total.
MixedVerdictsScored ==
    /\ confluence_analysis.dominant_direction = "NEUTRAL"
    /\ \E tf \in DOMAIN timeframe_results :
          /\ timeframe_results[tf].dominant_direction = "BULLISH"
          /\ timeframe_results[tf].signal_strength > 0
    /\ 0 < confluence_analysis.confluence_score.num
    /\ confluence_analysis.confluence_score.num < confluence_analysis.confluence_score.den

-----------------------------------------------------------------------------
(* Properties of the opportunity score *)

\* C13: the opportunity score total lies in [0,100] and every breakdown
\* component stays within its cap: FVG 22, trendline 18, pattern 22,
\* volume 12, momentum 8, confluence 18.
ScoreWithinCaps ==
    /\ 0 <= opportunity.total /\ opportunity.total <= ScoreCap
    /\ opportunity.score_breakdown.fvg <= FvgCap
    /\ opportunity.score_breakdown.trendlines <= TrendlineCap
    /\ opportunity.score_breakdown.patterns <= PatternCap
    /\ opportunity.score_breakdown.volume <= VolumeCap
    /\ opportunity.score_breakdown.momentum <= MomentumCap
    /\ opportunity.score_breakdown.confluence <= ConfluenceCap

\* A symbol whose every component reaches its cap has been scored 100.
EveryCapReached ==
    /\ opportunity.total = ScoreCap
    /\ opportunity.total_signals = 4
    /\ FvgScoreSum(analysis.fvg_zones) > FvgCap
    /\ PatternScoreSum(analysis.patterns) > PatternCap
    /\ opportunity.score_breakdown.confluence = ConfluenceCap

-----------------------------------------------------------------------------
(* Properties of the configuration *)

\* C14: a configuration whose timeframe weights do not sum to 1.0, or whose
\* primary or confirmation timeframe is not in the configured timeframe set,
\* is rejected at startup and never used: every loaded configuration has
\* weights that sum to 1.0 and holds the primary timeframe and the
\* confirmation timeframe in use.
InvalidConfigurationRejected ==
    config_status = "loaded" =>
        /\ SumValues(settings.timeframe_weights, DOMAIN settings.timeframe_weights) = 100
        /\ settings.primary_timeframe \in settings.timeframes
        /\ confirmation_timeframe # "" => confirmation_timeframe \in settings.timeframes

-----------------------------------------------------------------------------
(* Properties of the candle cache *)

\* C15: when the candle source fails for a symbol/timeframe on one tick,
\* only that symbol/timeframe is skipped for that tick: the candles cached
\* before are left as they were, and every later fetch of a connected
\* dashboard asks the source for live data again.
SourceFailureSkipsOneTick ==
    [][last_fetch'.n # last_fetch.n =>
          /\ (last_fetch'.queried /\ last_fetch'.outcome = "fail") => data_cache' = data_cache
          /\ exchange_connected => last_fetch'.queried]_vars

-----------------------------------------------------------------------------
(* Properties of the monitoring gates *)

\* C16: no signal is stored for confirmation during the first 3 minutes after
\* the alert system starts, whatever the market data shows: every cache entry
\* and every alert carries a time at least 3 minutes after the start.
NoSignalStoredDuringWarmup ==
    /\ \A r \in confirmation_cache : r.signal_time - system_start_time >= WarmupMinutes
    /\ \A i \in DOMAIN active_alerts :
          active_alerts[i].timestamp - system_start_time >= WarmupMinutes
    /\ \A k \in AlertKeys :
          last_alerts[k] # NoTime => last_alerts[k] - system_start_time >= WarmupMinutes

\* A pass during warm-up found a crossover and stored nothing.
CrossoverIgnoredInWarmup ==
    /\ last_pass.time # NoTime
    /\ last_pass.time - system_start_time = WarmupMinutes - 1
    /\ last_pass.found # <<>>
    /\ confirmation_cache = {}
    /\ active_alerts = <<>>

\* C17: the alert cooldown gate lets signals of one symbol through to
\* confirmation storage at least 10 minutes apart: when a signal passes, no
\* other signal of the symbol passes in the same pass and every earlier pass
\* of the symbol is at least 10 minutes old.
AlertGateSpacing ==
    [][\A k1 \in AlertKeys : \A k2 \in AlertKeys :
          (last_alerts'[k1] # last_alerts[k1] /\ k1[1] = k2[1])
          => /\ last_alerts[k2] # NoTime => last_alerts'[k1] - last_alerts[k2] >= alert_cooldown
             /\ k2 # k1 => last_alerts'[k2] = last_alerts[k2]]_vars

-----------------------------------------------------------------------------
(* Properties of the exchange adapter *)

\* C18: the adapter is connected only after a connect() that completed
\* without an exception: initially, after a failed connect() and after
\* disconnect() it is not connected, and a get_tickers or get_ohlcv call made
\* while not connected raised ConnectionError without querying the client.
ConnectedOnlyAfterConnect ==
    /\ adapter.connected <=> adapter_trace.event = "connect_ok"
    /\ (adapter_trace.call.op # "none" /\ ~adapter_trace.call.was_connected)
       => /\ adapter_trace.call.result = "ConnectionError"
          /\ ~adapter_trace.call.queried

\* A connected adapter failed to reconnect and then refused a data call.
CallRefusedAfterFailedConnect ==
    /\ adapter_trace.event = "connect_failed"
    /\ adapter.public_client = "client"
    /\ adapter_trace.client_calls >= 2
    /\ adapter_trace.call.op = "get_ohlcv"
    /\ adapter_trace.call.result = "ConnectionError"

-----------------------------------------------------------------------------
(* Properties of the confirmation blocks *)

\* The close continues the trend of the candle before the evidence candle by
\* more than permille thousandths; the first candle of a frame passes.
ContinuesTrend(f, idx, direction, permille) ==
    IF idx > 0
    THEN \/ direction = "LONG"
            /\ Row(f, idx).close * 1000 > Row(f, idx - 1).close * (1000 + permille)
         \/ direction = "SHORT"
            /\ Row(f, idx).close * 1000 < Row(f, idx - 1).close * (1000 - permille)
    ELSE TRUE

\* Number of the six checks of the third block that the evidence candle satisfies
ThirdChecksSatisfied(f, idx, direction, signal_price) ==
    B(DirectionOk(Row(f, idx), direction)) + B(BodyRatioAbove(Row(f, idx), 8))
    + B(VolumeRatioAbove(f, idx, 20))
    + B(MomentumOk(Row(f, idx), direction, signal_price, 1))
    + B(WicksBelow(Row(f, idx), 20)) + B(ContinuesTrend(f, idx, direction, 0))

\* Number of the seven checks of the fourth block that the evidence candle satisfies
FourthChecksSatisfied(f, idx, direction, signal_price, signal_time) ==
    B(DirectionOk(Row(f, idx), direction)) + B(BodyRatioAbove(Row(f, idx), 9))
    + B(VolumeRatioAbove(f, idx, 30))
    + B(MomentumOk(Row(f, idx), direction, signal_price, 2))
    + B(WicksBelow(Row(f, idx), 15)) + B(ContinuesTrend(f, idx, direction, 5))
    + B(NoReversal(f, direction, signal_time))

\* C19: for the third and fourth block, whenever a candle later than the
\* block's delay (signal time + 10, + 15 minutes) is available, the returned
\* confidence is the number of satisfied checks over 6, resp. 7, times 100,
\* and the block is confirmed exactly when the confidence is at least 85,
\* resp. 90.
LateStageConfidenceFormula ==
    stage_output # <<>> =>
        LET f == stage_input.frame
            idx3 == TailOne(f, stage_input.signal_time + third_confirmation_delay)
            idx4 == TailOne(f, stage_input.signal_time + fourth_confirmation_delay)
        IN /\ (f.ok /\ f.rows >= 15 /\ idx3 >= 0) =>
                 /\ stage_output[3].confidence * 6 =
                       ThirdChecksSatisfied(f, idx3, stage_input.direction,
                                            stage_input.signal_price) * 100 * PCT
                 /\ stage_output[3].confirmed <=> stage_output[3].confidence >= 85 * PCT
           /\ (f.ok /\ f.rows >= 20 /\ idx4 >= 0) =>
                 /\ stage_output[4].confidence * 7 =
                       FourthChecksSatisfied(f, idx4, stage_input.direction,
                                             stage_input.signal_price,
                                             stage_input.signal_time) * 100 * PCT
                 /\ stage_output[4].confirmed <=> stage_output[4].confidence >= 90 * PCT

\* Points of the first block: candle colour matching the direction, body
\* ratio above 0.6, volume ratio above 1.2, close beyond the signal price
FirstBlockPoints(f, idx, direction, signal_price) ==
    B(DirectionOk(Row(f, idx), direction))
    + B(body_size(Row(f, idx)) * 10 > 6 * total_range(Row(f, idx)))
    + B(VolumeRatioAbove(f, idx, 12))
    + B(\/ direction = "LONG" /\ Row(f, idx).close > signal_price
        \/ direction = "SHORT" /\ Row(f, idx).close < signal_price)

\* The example of the first block: a LONG at price 100 whose evidence candle
\* closes at 101.2 with body ratio 0.65 and volume ratio 1.3
IsFirstBlockExample ==
    /\ stage_input.direction = "LONG"
    /\ stage_input.frame.ok
    /\ stage_input.frame.rows >= 12
    /\ stage_input.frame.last_ts > stage_input.signal_time
    /\ stage_input.frame.recent = <<QuietCandle, ExampleLong>>

\* C20: the first block awards one point each for a candle colour matching
\* the direction, body ratio > 0.6, volume ratio > 1.2 and a close beyond the
\* signal price; its confidence is points/4 x 100 and it is confirmed exactly
\* when the confidence is at least 60; the example yields 100% and confirmed.
FirstBlockScoring ==
    stage_output # <<>> =>
        LET f == stage_input.frame
            idx == TailOne(f, stage_input.signal_time)
        IN /\ (f.ok /\ f.rows >= 5 /\ idx >= 0) =>
                 /\ stage_output[1].confidence * 4 =
                       FirstBlockPoints(f, idx, stage_input.direction,
                                        stage_input.signal_price) * 100 * PCT
                 /\ stage_output[1].confirmed <=> stage_output[1].confidence >= 60 * PCT
           /\ IsFirstBlockExample =>
                 /\ stage_output[1].confidence = 100 * PCT
                 /\ stage_output[1].confirmed

\* The example has been evaluated by the first block.
FirstBlockExampleScored ==
    /\ IsFirstBlockExample
    /\ stage_output # <<>>
    /\ stage_output[1].outcome = "scored"
    /\ stage_output[1].confirmed

-----------------------------------------------------------------------------
(* Properties of the driver loop and the request thread *)

\* C21: within one record the blocks are called in the order 1, 2, 3, 4, and
\* block k is never called before the delay of every block up to k (0, 5,
\* 10, 15 minutes after the signal) has elapsed.
StagesInOrderAfterDelays ==
    \A log \in stage_log : \A i \in DOMAIN log :
        /\ log[i].stage = i
        /\ \A j \in 1..log[i].stage : log[i].at - log[i].key[3] >= StageDelays[j]

\* A pass has called all four blocks for a pending entry.
FourBlocksCalled ==
    \E log \in stage_log :
        /\ Len(log) = 4
        /\ log[4].stage = 4
        /\ log[4].at - log[4].key[3] >= fourth_confirmation_delay
        /\ \E r \in confirmation_cache : CacheKey(r) = log[4].key

\* C22: accepting a signal sets the symbol's entry of symbol_signal_history
\* to the acceptance time, and the pass that computes verdicts (CONFIRMED or
\* REJECTED) leaves every entry as it is: a rejection does not shorten the
\* symbol's cooldown.
AcceptanceStartsCooldownVerdictKeepsIt ==
    [][/\ \A r \in confirmation_cache' \ confirmation_cache :
             /\ r.signal_time = now
             /\ symbol_signal_history'[r.symbol] = now
       /\ (pc = "check" /\ pc' = "monitor")
             => symbol_signal_history' = symbol_signal_history]_vars

\* A signal has been rejected while its symbol is still in its cooldown,
\* which runs from the acceptance time.
RejectedInsideCooldown ==
    \E i \in DOMAIN active_alerts :
        /\ active_alerts[i].confirmation_status = "REJECTED"
        /\ symbol_signal_history[active_alerts[i].symbol] = active_alerts[i].timestamp
        /\ check_symbol_cooldown(symbol_signal_history, active_alerts[i].symbol, now)

\* C23: the cooldown map, the confirmation cache and the alerts' confirmation
\* status are written by the driver loop only: every step that changes one
\* of them is a step of the driver thread and none of the request thread.
OnlyDriverWrites ==
    [][(\/ symbol_signal_history' # symbol_signal_history
        \/ confirmation_cache' # confirmation_cache
        \/ active_alerts' # active_alerts)
       => (pc' # pc /\ request' = request)]_vars

\* A manual check has been answered for an alert that is still PENDING.
ManualCheckLeftAlertPending ==
    /\ request.route = "/api/confirmation"
    /\ request.response \in {"confirmed", "unconfirmed"}
    /\ \E i \in DOMAIN active_alerts : active_alerts[i].confirmation_status = "PENDING"
    /\ confirmation_cache # {}

\* C24: a /api/confirmations request served while the driver thread accepts
\* a signal never fails, under every interleaving of the two threads.
ConfirmationsRequestNeverFails ==
    ~ (request.route = "/api/confirmations" /\ request.response = "error")

\* C25: a pass of check_pending_confirmations runs the blocks only for
\* records that are still PENDING: a record whose alert already carries its
\* verdict is not evaluated again by a later pass.
OnlyPendingRecordsChecked ==
    [][(pc = "check" /\ pc' = "monitor")
       => \A log \in stage_log' : \A i \in DOMAIN active_alerts :
             AlertKey(active_alerts[i]) = log[1].key
             => active_alerts[i].confirmation_status = "PENDING"]_vars

\* C26: one crossover event, the same pair of latest primary candles showing
\* the cross, yields at most one accepted signal, however many passes of the
\* driver observe it.
OneSignalPerCrossover ==
    \A direction \in Directions :
        Cardinality({r \in confirmation_cache :
                        /\ r.direction = direction
                        /\ r.signal_time >= crossover.since}) <= 1

-----------------------------------------------------------------------------
(* Further properties of the confluence engine and the gap detector *)

\* The weighted total of the bucket of direction dir for the verdicts given
\* to the engine
BucketTotal(dir) == WeightedVotes(timeframe_results, dir, 1)

\* C27: dominant_direction is a bucket (BULLISH, BEARISH or NEUTRAL) with the
\* highest weighted total, also when two buckets are close or equal, and
\* confluence_score is that bucket's total divided by the sum of the three.
DominantIsHighestBucket ==
    confluence_analysis # NoAnalysis =>
        LET dominant == confluence_analysis.dominant_direction
            score == confluence_analysis.confluence_score
            total == BucketTotal("BULLISH") + BucketTotal("BEARISH") + BucketTotal("NEUTRAL")
        IN /\ dominant \in VerdictDirections
           /\ \A dir \in VerdictDirections : BucketTotal(dominant) >= BucketTotal(dir)
           /\ total > 0 => score.num * total = BucketTotal(dominant) * score.den

\* C28: agreement_count is the number of analysed timeframes whose verdict
\* direction equals dominant_direction, also when that is NEUTRAL and when
\* every timeframe has strength 0.
AgreementCountsMatchingTimeframes ==
    confluence_analysis # NoAnalysis =>
        confluence_analysis.agreement_count =
            Cardinality({tf \in DOMAIN timeframe_results :
                            timeframe_results[tf].dominant_direction
                                = confluence_analysis.dominant_direction})

\* Some candle after the third candle of zone z has a [low, high] range that
\* overlaps at least 70% of the gap range.
OverlapsSeventyPercent(z) ==
    \E j \in (z.formation_index + 2)..(Len(df) - 1) :
        LET candle == df[j + 1]
            overlap == Min2(candle.high, z.gap_high) - Max2(candle.low, z.gap_low)
        IN overlap * 10 >= 7 * (z.gap_high - z.gap_low)

\* C29: a gap is reported FILLED exactly when some candle after its third
\* candle overlaps at least 70% of the gap range, exactly 70% included, and
\* UNFILLED otherwise.
FilledIffSeventyPercentOverlap ==
    \A k \in DOMAIN fvg_zones :
        /\ fvg_zones[k].status \in {"FILLED", "UNFILLED"}
        /\ fvg_zones[k].status = "FILLED" <=> OverlapsSeventyPercent(fvg_zones[k])

\* The window whose third candle is df[i] forms a gap the detector accepts
\* (bullish or bearish, above the threshold, positive values) and its age is
\* beyond FVG_MAX_AGE.
OldGapWindow(i) ==
    /\ WindowZones(df, i - 1) # <<>>
    /\ Len(df) - (i - 1) > FVG_MAX_AGE

====
